---------------------------- MODULE Spec2Model ----------------------------
(***************************************************************************)
(* A model of the instruction-to-edit pipeline of the codeIt extension:    *)
(* ProjectIndexer (index build and reads), SmartFileResolver (file         *)
(* resolution), PromptBuilder (line-numbered prompt), SmartAgent (pipeline *)
(* and range edits) and PatchEngine (patch application and history).       *)
(*                                                                         *)
(* Each component has its own specification (SpecIndex, SpecResolve, ...). *)
(* The variables of the other components are held at their initial value.  *)
(***************************************************************************)
EXTENDS Integers, Sequences, FiniteSets, TLC

(***************************************************************************)
(* Bounds of the model.                                                    *)
(***************************************************************************)
NumCallers == 2
MaxFiles == 3
MaxBuilds == 2
MaxWords == 2

MaxLines == 100
MaxRelevant == 6
MaxDocLen == 4
MaxNewLen == 2
MaxPatchOps == 2
MaxChanges == 2
MaxCodeLen == 2
MaxAgentChanges == 2
MaxAgentCalls == 1
\* replies of up to MaxPieces pieces
MaxPieces == 3
\* fenced blocks of up to MaxBlockLines lines
MaxBlockLines == 2
\* additions to the patch history, more than maxHistorySize
MaxHistoryAdds == 52

(***************************************************************************)
(* Constants of the program.                                               *)
(***************************************************************************)
\* resolveFiles: maxResults of the default options
DefaultMaxResults == 10
\* generateComposedPrompt: promptConfig.maxTokens
MaxTokens == 100
\* truncateContentIntelligently: lines kept before and after a relevant line
ContextBefore == 3
ContextAfter == 10
\* mergeSections: sections this close are merged
MergeGap == 5
\* truncateContentIntelligently: sections kept, lines of the file head kept,
\* characters of the fallback
TopSections == 5
HeadLines == 20
FallbackChars == 2000
\* PatchEngine.maxHistorySize
maxHistorySize == 50

(***************************************************************************)
(* ProjectIndexer state (unnamed/part_001, class ProjectIndexer).          *)
(*                                                                         *)
(* projectIndex is a JavaScript object reference: `heap` maps every index  *)
(* object ever allocated to its content, projectIndex names the object the *)
(* indexer currently points to.  An index content maps a base name (the    *)
(* lookup key) to the file whose record is stored under it.                *)
(***************************************************************************)
VARIABLES
  projectIndex,   \* the object this.projectIndex refers to
  heap,           \* object id -> index content
  isIndexing,     \* this.isIndexing
  nextObj,        \* next object id to allocate
  pc,             \* per caller: position in its async call
  op,             \* per caller: the operation it is executing
  scanFiles,      \* running build: the files findFiles returned (sorted)
  scanPos,        \* running build: position of the file awaiting insertion
  pending,        \* running build: result of the indexFile call being awaited
  scanOk,         \* running build: files whose read and parse succeeded
  before,         \* history: index content when the running build began
  obsSeen,        \* history: the content last read during the running build
  ret,            \* the object the last re-entrant buildIndex call returned
  retBefore,      \* history: `before` when that object was returned
  startedBusy,    \* history: a scan was started while another was executing
  scanThrew       \* history: the scan that ended last ended by a thrown error

indexVars == <<projectIndex, heap, isIndexing, nextObj, pc, op, scanFiles,
               scanPos, pending, scanOk, before, obsSeen, ret, retBefore,
               startedBusy, scanThrew>>

(***************************************************************************)
(* SmartFileResolver state (src/smartFileResolver.ts).                     *)
(***************************************************************************)
VARIABLES
  instruction,    \* the instruction string
  resolveIndex,   \* the records of the index resolveFiles reads
  resolveOptions, \* finalOptions of the call
  fileMatches,    \* what resolveFiles returned
  resolvePc       \* "off", "ready" (before the call) or "done" (returned)

resolveVars == <<instruction, resolveIndex, resolveOptions, fileMatches,
                 resolvePc>>

(***************************************************************************)
(* Prompt composition state (src/smartFileResolver.ts, promptBuilder.ts).  *)
(***************************************************************************)
VARIABLES
  promptFile,     \* the target file's content on disk
  numbered,       \* the numbered code lines of the user prompt
  promptPc        \* "off", "ready" or "done"

promptVars == <<promptFile, numbered, promptPc>>

(***************************************************************************)
(* State of one open document the SmartAgent edits (unnamed/part_001).     *)
(***************************************************************************)
VARIABLES
  document,       \* the text of the editor's document
  documentBefore, \* history: the text before applyFileChanges
  edit,           \* the arguments of the applyFileChanges call
  applied,        \* what applyFileChanges returned ({} before it returns)
  applyPc         \* "off", "ready" or "done"

applyVars == <<document, documentBefore, edit, applied, applyPc>>

(***************************************************************************)
(* PatchEngine state (src/patchEngine.ts).                                 *)
(***************************************************************************)
VARIABLES
  patchHistory,   \* PatchEngine.patchHistory, newest entry first
  historyBefore,  \* history: patchHistory when the operation began
  patchOp,        \* the operation in progress: method, changes, options
  patchPc,        \* "off", "idle", "alternatives", "confirm", "commit", "done"
  patchResult,    \* the result the operation returned ({} before it returns)
  checked,        \* history: changes whose syntax check has completed
  touched,        \* history: files the operation has changed
  declined,       \* history: the user declined the confirmation prompt
  patchOps        \* operations begun

patchVars == <<patchHistory, historyBefore, patchOp, patchPc, patchResult,
               checked, touched, declined, patchOps>>

(***************************************************************************)
(* State of SmartAgent.executeSmartInstruction.                            *)
(***************************************************************************)
VARIABLES
  workspaceIndex,  \* the index a build of the workspace yields
  agentIndexed,    \* indexer.isIndexed()
  agentPc,         \* where the running call is
  agentInstruction,
  agentOptions,    \* finalOptions
  agentResult,     \* result: AgentExecutionResult
  agentMatches,    \* fileMatches: {} before resolveFiles has returned
  targetFiles,     \* promptContext.targetFiles
  modelCalls,      \* calls of api.callAPI made by the running call
  aiResponse,      \* {} before callAPI has returned a response
  callFailed,      \* callAPI threw
  thrown,          \* the error on its way to the catch block
  changeIdx,       \* parseAndApplyChanges: position in fileChanges
  changeResults,   \* parseAndApplyChanges: appliedCount and errors
  attempts,        \* history: what became of each change, in loop order
  edited,          \* files whose document the running call has edited
  agentCalls

agentVars == <<workspaceIndex, agentIndexed, agentPc, agentInstruction,
               agentOptions, agentResult, agentMatches, targetFiles,
               modelCalls, aiResponse, callFailed, thrown, changeIdx,
               changeResults, attempts, edited, agentCalls>>

(***************************************************************************)
(* State of one call of OutputParser.parseAIResponse.                      *)
(***************************************************************************)
VARIABLES
  reply,         \* response
  parseContext,  \* context
  detected,      \* responseType, as detectResponseType(trimmed) gave it
  parsed,        \* what the call returned or threw; {} before a call
  parsePc

parseVars == <<reply, parseContext, detected, parsed, parsePc>>

(***************************************************************************)
(* State of one call of SmartAgent.parseFileChanges.                       *)
(***************************************************************************)
VARIABLES
  replyForm,      \* history: the file, lines and block the reply was made of
  replyText,      \* aiResponse
  parsedChanges,  \* the list parseFileChanges returned
  changesPc

changesVars == <<replyForm, replyText, parsedChanges, changesPc>>

(***************************************************************************)
(* History of the additions to PatchEngine.patchHistory.                   *)
(***************************************************************************)
VARIABLES
  added,        \* history: the entries added since the last clearHistory,
                \* newest first
  historyAdds   \* calls of addToHistory so far

historyVars == <<added, historyAdds>>

(***************************************************************************)
(* OutputParser.cleanCode.                                                 *)
(***************************************************************************)
VARIABLES
  rawCode,      \* the argument of cleanCode
  cleanedCode,  \* what it returned
  cleanPc       \* "off", "ready" before the call, "done" after it

cleanVars == <<rawCode, cleanedCode, cleanPc>>

(***************************************************************************)
(* State of one call of PerplexityAPI.makeRequest with its retries.        *)
(***************************************************************************)
VARIABLES
  requestPc,       \* "off", "idle", "sending", "waiting" (the delay), "done"
  retryCount,      \* the argument retryCount of the running invocation
  requestModel,    \* requestBody.model
  httpAttempts,    \* history: the calls of axios.post made by this call
  failures,        \* history: the failed attempts in order, as classified
  requestOutcome   \* {} while running, then what was returned or thrown

requestVars == <<requestPc, retryCount, requestModel, httpAttempts, failures,
                 requestOutcome>>

(***************************************************************************)
(* What the actions of one component leave unchanged.                      *)
(***************************************************************************)
outsideIndex == <<resolveVars, promptVars, applyVars, patchVars, agentVars, parseVars, changesVars, historyVars, cleanVars, requestVars>>
outsideResolve == <<indexVars, promptVars, applyVars, patchVars, agentVars, parseVars, changesVars, historyVars, cleanVars, requestVars>>
outsidePrompt == <<indexVars, resolveVars, applyVars, patchVars, agentVars, parseVars, changesVars, historyVars, cleanVars, requestVars>>
outsideApply == <<indexVars, resolveVars, promptVars, patchVars, agentVars, parseVars, changesVars, historyVars, cleanVars, requestVars>>
outsidePatch == <<indexVars, resolveVars, promptVars, applyVars, agentVars, parseVars, changesVars, historyVars, cleanVars, requestVars>>
outsideAgent == <<indexVars, resolveVars, promptVars, applyVars, patchVars, parseVars, changesVars, historyVars, cleanVars, requestVars>>
outsideParse == <<indexVars, resolveVars, promptVars, applyVars, patchVars, agentVars, changesVars, historyVars, cleanVars, requestVars>>
outsideChanges == <<indexVars, resolveVars, promptVars, applyVars, patchVars, agentVars, parseVars, historyVars, cleanVars, requestVars>>
outsideHistory == <<indexVars, resolveVars, promptVars, applyVars, patchVars, agentVars, parseVars, changesVars, cleanVars, requestVars>>

Callers == 1..NumCallers
Files == 1..MaxFiles
ObjIds == 0..MaxBuilds

\* path.basename(filePath): files 1 and 2 have different base names, file 3
\* lives in another directory and has the base name of file 1, and so on.
Basename(f) == ((f - 1) % 2) + 1
Names == {Basename(f) : f \in Files}

\* An absent value is the empty set and a present value x is {x}: a missing
\* key of the index, the null that indexFile returns, no returned object.
NoRecord == {}
NoObj == {}
Null == {}

EmptyIndex == [n \in Names |-> NoRecord]

\* Object.keys(index)
Keys(idx) == {n \in Names : idx[n] # NoRecord}

\* Object.keys(this.projectIndex).length > 0
isIndexed == Keys(heap[projectIndex]) # {}

\* [...new Set(allFiles)].sort(): the enumerated set in ascending path order.
RECURSIVE SortedSeq(_)
SortedSeq(S) ==
  IF S = {} THEN <<>>
  ELSE LET m == CHOOSE x \in S : \A y \in S : x <= y
       IN <<m>> \o SortedSeq(S \ {m})

\* indexFile: the FileIndex of the file, or null when statSync, readFileSync
\* or the parse throws (the catch of indexFile).
IndexFile_KeepsFailed(f, readable) == {f}
IndexFile(f, readable) == IF readable THEN {f} ELSE Null

\* this.projectIndex[path.basename(filePath)] = fileIndex, guarded by
\* `if (fileIndex)`.
InsertRecord(idx, r) ==
  IF r = Null THEN idx
  ELSE LET f == CHOOSE x \in r : TRUE IN [idx EXCEPT ![Basename(f)] = r]

\* The guard of buildIndex: `if (this.isIndexing) return this.projectIndex`.
AlreadyIndexing_Never == FALSE
AlreadyIndexing == isIndexing

Scanning(p) == pc[p] \in {"glob", "loop", "finishing"}

\* Index objects nothing refers to any more are reclaimed by the garbage
\* collector: only the objects in `live` keep a content.
Collect(h, live) == [o \in ObjIds |-> IF o \in live THEN h[o] ELSE EmptyIndex]

IndexInit ==
  /\ projectIndex = 0
  /\ heap = [o \in ObjIds |-> EmptyIndex]
  /\ isIndexing = FALSE
  /\ nextObj = 1
  /\ pc = [p \in Callers |-> "idle"]
  /\ op = [p \in Callers |-> "none"]
  /\ scanFiles = <<>>
  /\ scanPos = 0
  /\ pending = Null
  /\ scanOk = {}
  /\ before = EmptyIndex
  /\ obsSeen = {}
  /\ ret = NoObj
  /\ retBefore = EmptyIndex
  /\ startedBusy = FALSE
  /\ scanThrew = FALSE

\* A caller reads the index content synchronously (getIndex and the use of
\* what it returned in the same turn); a read made while a build is running
\* is remembered.
ReadIndex == IF isIndexing THEN {heap[projectIndex]} ELSE obsSeen

\* buildIndex up to its first suspension: either the early return of the
\* guard, or isIndexing = true and the start of findFiles.  `after` is where
\* the caller continues when the call returns at once.
EnterBuild(p, kind, after) ==
  IF AlreadyIndexing
    THEN /\ ret' = {projectIndex}
         /\ retBefore' = before
         /\ pc' = [pc EXCEPT ![p] = after]
         /\ op' = [op EXCEPT ![p] = IF after = "idle" THEN "none" ELSE kind]
         /\ heap' = Collect(heap, {projectIndex})
         /\ UNCHANGED <<projectIndex, isIndexing, nextObj, scanFiles, scanPos,
                        pending, scanOk, before, obsSeen, startedBusy,
                        scanThrew>>
    ELSE /\ nextObj <= MaxBuilds
         /\ isIndexing' = TRUE
         /\ before' = heap[projectIndex]
         /\ obsSeen' = {}
         /\ scanOk' = {}
         /\ startedBusy' = (startedBusy \/ \E q \in Callers : Scanning(q))
         /\ pc' = [pc EXCEPT ![p] = "glob"]
         /\ op' = [op EXCEPT ![p] = kind]
         /\ UNCHANGED <<projectIndex, heap, nextObj, scanFiles, scanPos,
                        pending, ret, retBefore, scanThrew>>

\* A caller calls buildIndex().
BuildIndexCall(p) ==
  /\ pc[p] = "idle"
  /\ EnterBuild(p, "build", "idle")
  /\ UNCHANGED outsideIndex

\* A caller calls refreshIndex(), which is `return await this.buildIndex()`.
RefreshIndexCall(p) ==
  /\ pc[p] = "idle"
  /\ EnterBuild(p, "refresh", "idle")
  /\ UNCHANGED outsideIndex

\* findFiles resolves; the callback continues synchronously: the index is
\* reset to a fresh empty object and indexFile is called on the first file,
\* then the loop suspends on `await this.indexFile(...)`.
FindFilesDone(p) ==
  /\ pc[p] = "glob"
  /\ \E S \in SUBSET Files :
       /\ scanFiles' = SortedSeq(S)
       /\ projectIndex' = nextObj
       /\ heap' = Collect([heap EXCEPT ![nextObj] = EmptyIndex],
                          {nextObj} \cup ret)
       /\ nextObj' = nextObj + 1
       /\ IF S = {}
            THEN /\ pc' = [pc EXCEPT ![p] = "finishing"]
                 /\ scanPos' = 0
                 /\ pending' = Null
                 /\ UNCHANGED scanOk
            ELSE \E readable \in BOOLEAN :
                 /\ pc' = [pc EXCEPT ![p] = "loop"]
                 /\ scanPos' = 1
                 /\ pending' = IndexFile(scanFiles'[1], readable)
                 /\ scanOk' = IF readable THEN {scanFiles'[1]} ELSE {}
  /\ UNCHANGED <<isIndexing, op, before, obsSeen, ret, retBefore, startedBusy,
                 scanThrew>>
  /\ UNCHANGED outsideIndex

\* The loop resumes after `await this.indexFile(...)`: the record, if any, is
\* stored in place in the current index object; then either indexFile is
\* called on the next file and the loop suspends again, or the callback ends.
LoopResume(p) ==
  /\ pc[p] = "loop"
  /\ heap' = [heap EXCEPT ![projectIndex] = InsertRecord(@, pending)]
  /\ IF scanPos < Len(scanFiles)
       THEN \E readable \in BOOLEAN :
            /\ scanPos' = scanPos + 1
            /\ pending' = IndexFile(scanFiles[scanPos + 1], readable)
            /\ scanOk' = IF readable THEN scanOk \cup {scanFiles[scanPos + 1]}
                                      ELSE scanOk
            /\ UNCHANGED pc
       ELSE /\ pc' = [pc EXCEPT ![p] = "finishing"]
            /\ pending' = Null
            /\ UNCHANGED <<scanPos, scanOk>>
  /\ UNCHANGED <<projectIndex, isIndexing, nextObj, op, scanFiles, before,
                 obsSeen, ret, retBefore, startedBusy, scanThrew>>
  /\ UNCHANGED outsideIndex

isIndexingAfter_ReturnOnly(threw) == IF threw THEN isIndexing ELSE FALSE
\* finally { this.isIndexing = false }: the flag when the try block is left,
\* by the return or by the error thrown again in the catch.
isIndexingAfter(threw) == FALSE

\* withProgress resolves: lastIndexTime is set, the index is returned and the
\* finally block clears isIndexing.  A resolveFiles caller goes on to read.
BuildFinish(p) ==
  /\ pc[p] = "finishing"
  /\ isIndexing' = isIndexingAfter(FALSE)
  /\ scanThrew' = FALSE
  /\ pc' = [pc EXCEPT ![p] = IF op[p] = "resolve" THEN "read" ELSE "idle"]
  /\ op' = [op EXCEPT ![p] = IF op[p] = "resolve" THEN "resolve" ELSE "none"]
  /\ UNCHANGED <<projectIndex, heap, nextObj, scanFiles, scanPos, pending,
                 scanOk, before, obsSeen, ret, retBefore, startedBusy>>
  /\ UNCHANGED outsideIndex

\* withProgress rejects, while findFiles is awaited or when the callback has
\* ended: the catch logs and throws the error again, the finally block
\* clears isIndexing and the error reaches the caller of buildIndex
\* (resolveFiles does not catch it).
BuildThrows(p) ==
  /\ pc[p] \in {"glob", "finishing"}
  /\ isIndexing' = isIndexingAfter(TRUE)
  /\ scanThrew' = TRUE
  /\ pc' = [pc EXCEPT ![p] = "idle"]
  /\ op' = [op EXCEPT ![p] = "none"]
  /\ UNCHANGED <<projectIndex, heap, nextObj, scanFiles, scanPos, pending,
                 scanOk, before, obsSeen, ret, retBefore, startedBusy>>
  /\ UNCHANGED outsideIndex

\* A caller calls resolveFiles: with a non-empty index it reads it at once,
\* otherwise it awaits buildIndex() first.
ResolveFilesCall(p) ==
  /\ pc[p] = "idle"
  /\ IF isIndexed
       THEN /\ obsSeen' = ReadIndex
            /\ obsSeen' # obsSeen
            /\ UNCHANGED <<projectIndex, heap, isIndexing, nextObj, pc, op,
                           scanFiles, scanPos, pending, scanOk, before, ret,
                           retBefore, startedBusy, scanThrew>>
       ELSE EnterBuild(p, "resolve", "read")
  /\ UNCHANGED outsideIndex

\* resolveFiles after `await this.indexer.buildIndex()`: getIndex() and the
\* synchronous matching against what it returned.
ResolveFilesRead(p) ==
  /\ pc[p] = "read"
  /\ obsSeen' = ReadIndex
  /\ pc' = [pc EXCEPT ![p] = "idle"]
  /\ op' = [op EXCEPT ![p] = "none"]
  /\ UNCHANGED <<projectIndex, heap, isIndexing, nextObj, scanFiles,
                 scanPos, pending, scanOk, before, ret, retBefore, startedBusy,
                 scanThrew>>
  /\ UNCHANGED outsideIndex

\* A caller calls getIndex() and reads what it returned.
GetIndex(p) ==
  /\ pc[p] = "idle"
  /\ obsSeen' = ReadIndex
  /\ obsSeen' # obsSeen
  /\ UNCHANGED <<projectIndex, heap, isIndexing, nextObj, pc, op, scanFiles,
                 scanPos, pending, scanOk, before, ret, retBefore, startedBusy,
                 scanThrew>>
  /\ UNCHANGED outsideIndex

IndexNext ==
  \E p \in Callers :
    \/ BuildIndexCall(p)
    \/ RefreshIndexCall(p)
    \/ FindFilesDone(p)
    \/ LoopResume(p)
    \/ BuildFinish(p)
    \/ BuildThrows(p)
    \/ ResolveFilesCall(p)
    \/ ResolveFilesRead(p)
    \/ GetIndex(p)


(***************************************************************************)
(* Strings are sequences of one-character strings.                         *)
(***************************************************************************)
LowerLetters ==
  {"a", "b", "c", "d", "e", "f", "g", "h", "i", "j", "k", "l", "m",
   "n", "o", "p", "q", "r", "s", "t", "u", "v", "w", "x", "y", "z"}
UpperLetters ==
  {"A", "B", "C", "D", "E", "F", "G", "H", "I", "J", "K", "L", "M",
   "N", "O", "P", "Q", "R", "S", "T", "U", "V", "W", "X", "Y", "Z"}
Digits == {"0", "1", "2", "3", "4", "5", "6", "7", "8", "9"}
UpperSeq == <<"A", "B", "C", "D", "E", "F", "G", "H", "I", "J", "K", "L", "M",
             "N", "O", "P", "Q", "R", "S", "T", "U", "V", "W", "X", "Y", "Z">>
LowerSeq == <<"a", "b", "c", "d", "e", "f", "g", "h", "i", "j", "k", "l", "m",
             "n", "o", "p", "q", "r", "s", "t", "u", "v", "w", "x", "y", "z">>

\* String.prototype.toLowerCase
LowerChar(c) ==
  IF c \in UpperLetters
    THEN LowerSeq[CHOOSE i \in 1..Len(UpperSeq) : UpperSeq[i] = c]
    ELSE c
ToLower(s) == [i \in 1..Len(s) |-> LowerChar(s[i])]

\* String.prototype.includes
Includes(hay, needle) ==
  \E i \in 0..(Len(hay) - Len(needle)) :
    SubSeq(hay, i + 1, i + Len(needle)) = needle

\* The maximal runs of s that hold no character of D, in order: what
\* s.split(/[D]+/) returns, without the empty strings.
RECURSIVE PiecesFrom(_, _, _, _)
PiecesFrom(s, D, i, cur) ==
  IF i > Len(s)
    THEN IF cur = <<>> THEN <<>> ELSE <<cur>>
    ELSE IF s[i] \in D
      THEN (IF cur = <<>> THEN <<>> ELSE <<cur>>) \o PiecesFrom(s, D, i + 1, <<>>)
      ELSE PiecesFrom(s, D, i + 1, Append(cur, s[i]))
Pieces(s, D) == PiecesFrom(s, D, 1, <<>>)

\* [...new Set(seq)]: the first occurrence of every element, in order.
RECURSIVE Dedupe(_)
Dedupe(seq) ==
  IF seq = <<>> THEN <<>>
  ELSE LET front == Dedupe(SubSeq(seq, 1, Len(seq) - 1))
           last == seq[Len(seq)]
       IN IF \E i \in 1..Len(front) : front[i] = last
            THEN front ELSE Append(front, last)

RECURSIVE JoinWords(_)
JoinWords(ws) ==
  IF ws = <<>> THEN <<>>
  ELSE IF Len(ws) = 1 THEN ws[1]
  ELSE ws[1] \o <<" ">> \o JoinWords(Tail(ws))

(***************************************************************************)
(* SmartFileResolver (src/smartFileResolver.ts).                           *)
(***************************************************************************)
AlnumChars == LowerLetters \cup UpperLetters \cup Digits
WordChars == AlnumChars \cup {"_"}
\* The characters of the model's strings that are not \w.
NonWordChars == {" ", ".", "-", "/", ",", ";", ":", "!", "?"}
\* instruction.split(/[\s,\.;:!?\-_]+/)
SplitDelims == {" ", ",", ".", ";", ":", "!", "?", "-", "_"}

CommonWords ==
  {
    <<"t", "h", "e">>, <<"a", "n", "d">>, <<"o", "r">>, <<"b", "u", "t">>,
    <<"i", "n">>, <<"o", "n">>, <<"a", "t">>, <<"t", "o">>,
    <<"f", "o", "r">>, <<"o", "f">>, <<"w", "i", "t", "h">>, <<"b", "y">>,
    <<"f", "r", "o", "m">>, <<"u", "p">>, <<"a", "b", "o", "u", "t">>,
    <<"i", "n", "t", "o">>, <<"t", "h", "r", "o", "u", "g", "h">>,
    <<"d", "u", "r", "i", "n", "g">>, <<"b", "e", "f", "o", "r", "e">>,
    <<"a", "f", "t", "e", "r">>, <<"a", "b", "o", "v", "e">>,
    <<"b", "e", "l", "o", "w">>, <<"b", "e", "t", "w", "e", "e", "n">>,
    <<"a", "m", "o", "n", "g">>, <<"u", "p", "d", "a", "t", "e">>,
    <<"a", "d", "d">>, <<"r", "e", "m", "o", "v", "e">>,
    <<"d", "e", "l", "e", "t", "e">>, <<"c", "r", "e", "a", "t", "e">>,
    <<"m", "o", "d", "i", "f", "y">>, <<"c", "h", "a", "n", "g", "e">>,
    <<"f", "i", "x">>, <<"i", "m", "p", "l", "e", "m", "e", "n", "t">>,
    <<"r", "e", "f", "a", "c", "t", "o", "r">>
  }

ClassSuffixes ==
  {
    <<"S", "e", "r", "v", "i", "c", "e">>,
    <<"C", "o", "n", "t", "r", "o", "l", "l", "e", "r">>,
    <<"M", "a", "n", "a", "g", "e", "r">>,
    <<"H", "a", "n", "d", "l", "e", "r">>,
    <<"P", "r", "o", "v", "i", "d", "e", "r">>,
    <<"R", "e", "p", "o", "s", "i", "t", "o", "r", "y">>,
    <<"M", "o", "d", "e", "l">>, <<"E", "n", "t", "i", "t", "y">>,
    <<"C", "o", "m", "p", "o", "n", "e", "n", "t">>,
    <<"I", "n", "t", "e", "r", "f", "a", "c", "e">>,
    <<"C", "l", "a", "s", "s">>
  }

AllIn(s, C) == \A i \in 1..Len(s) : s[i] \in C

\* /\b[A-Z][a-zA-Z0-9]*(?:Service|Controller|...|Class)\b/g on a \w-run
MatchSuffixed(r) ==
  /\ Len(r) >= 1 /\ r[1] \in UpperLetters /\ AllIn(r, AlnumChars)
  /\ \E suf \in ClassSuffixes :
       /\ Len(r) > Len(suf)
       /\ SubSeq(r, Len(r) - Len(suf) + 1, Len(r)) = suf
\* /\b[A-Z][a-zA-Z0-9]{2,}\b/g on a \w-run
MatchPascal(r) == Len(r) >= 3 /\ r[1] \in UpperLetters /\ AllIn(r, AlnumChars)
\* /\b[a-z][a-zA-Z0-9]{2,}\b/g on a \w-run
MatchCamel(r) == Len(r) >= 3 /\ r[1] \in LowerLetters /\ AllIn(r, AlnumChars)
\* /\b[a-z][a-z0-9_]+[a-z0-9]\b/g on a \w-run
MatchSnake(r) ==
  /\ Len(r) >= 3 /\ r[1] \in LowerLetters
  /\ AllIn(r, LowerLetters \cup Digits \cup {"_"})
  /\ r[Len(r)] \in LowerLetters \cup Digits
\* /\b[a-zA-Z0-9_-]+\.[a-zA-Z]{1,4}\b/g on a whitespace-delimited word that
\* holds one dot: the word is matched whole.
MatchFileExt(w) ==
  \E k \in 2..(Len(w) - 1) :
    /\ w[k] = "."
    /\ w[1] \in WordChars
    /\ AllIn(SubSeq(w, 1, k - 1), WordChars \cup {"-"})
    /\ Len(w) - k <= 4
    /\ AllIn(SubSeq(w, k + 1, Len(w)), LowerLetters \cup UpperLetters)

LongerThanTwo(w) == Len(w) > 2
\* .filter(id => id.length > 2 && !commonWords.has(id.toLowerCase()))
KeptIdentifier(id) == Len(id) > 2 /\ ToLower(id) \notin CommonWords

extractIdentifiers(instr) ==
  LET runs == Pieces(instr, NonWordChars)
      words == Pieces(instr, {" "})
      found == SelectSeq(runs, MatchSuffixed) \o SelectSeq(runs, MatchPascal)
                 \o SelectSeq(runs, MatchCamel) \o SelectSeq(runs, MatchSnake)
                 \o SelectSeq(words, MatchFileExt)
                 \o SelectSeq(Pieces(instr, SplitDelims), LongerThanTwo)
  IN SelectSeq(Dedupe(found), KeptIdentifier)

\* Scores are exact fractions n/d (d > 0).
Frac(n, d) == [n |-> n, d |-> d]
FracLess(a, b) == a.n * b.d < b.n * a.d
FracEq(a, b) == a.n * b.d = b.n * a.d

\* path.basename(p)
RECURSIVE LastIndexOf(_, _)
LastIndexOf(s, c) ==
  IF s = <<>> THEN 0
  ELSE IF s[Len(s)] = c THEN Len(s)
  ELSE LastIndexOf(SubSeq(s, 1, Len(s) - 1), c)
PathBasename(p) == SubSeq(p, LastIndexOf(p, "/") + 1, Len(p))
\* path.basename(p, path.extname(p)): the extension starts at the last dot,
\* unless that dot is the first character of the base name.
BaseNoExt(p) ==
  LET b == PathBasename(p)
      k == LastIndexOf(b, ".")
  IN IF k > 1 THEN SubSeq(b, 1, k - 1) ELSE b

Match(file, score, type) == [file |-> file, score |-> score, matchType |-> type]

ExactOne_ContainsOnly(id, file) ==
  LET fileName == BaseNoExt(file.path)
  IN IF Includes(ToLower(fileName), ToLower(id))
       THEN <<Match(file, Frac(Len(id) * 8, Len(fileName) * 10), "exact")>>
     ELSE <<>>
\* The body of the forEach of findExactFileMatches, for one file.
ExactOne(id, file) ==
  LET fileName == BaseNoExt(file.path)
  IN IF ToLower(fileName) = ToLower(id)
       THEN <<Match(file, Frac(1, 1), "exact")>>
     ELSE IF Includes(ToLower(fileName), ToLower(id))
       THEN <<Match(file, Frac(Len(id) * 8, Len(fileName) * 10), "exact")>>
     ELSE <<>>

RECURSIVE findExactFileMatchesFrom(_, _, _)
findExactFileMatchesFrom(id, index, i) ==
  IF i > Len(index) THEN <<>>
  ELSE ExactOne(id, index[i]) \o findExactFileMatchesFrom(id, index, i + 1)
findExactFileMatches(id, index) == findExactFileMatchesFrom(id, index, 1)

\* One symbol pass over one file: an equal symbol scores `whole`, a symbol
\* that contains the identifier scores (identifier.length / symbol.length)
\* times `part`/100.
RECURSIVE SymbolsFrom_LongerScoresMore(_, _, _, _, _, _, _)
SymbolsFrom_LongerScoresMore(id, file, syms, type, whole, part, j) ==
  IF j > Len(syms) THEN <<>>
  ELSE (IF ToLower(syms[j]) = ToLower(id)
          THEN <<Match(file, Frac(whole, 100), type)>>
        ELSE IF Includes(ToLower(syms[j]), ToLower(id))
          THEN <<Match(file, Frac(Len(syms[j]) * part, Len(id) * 1000), type)>>
        ELSE <<>>)
       \o SymbolsFrom_LongerScoresMore(id, file, syms, type, whole, part, j + 1)
RECURSIVE SymbolsFrom(_, _, _, _, _, _, _)
SymbolsFrom(id, file, syms, type, whole, part, j) ==
  IF j > Len(syms) THEN <<>>
  ELSE (IF ToLower(syms[j]) = ToLower(id)
          THEN <<Match(file, Frac(whole, 100), type)>>
        ELSE IF Includes(ToLower(syms[j]), ToLower(id))
          THEN <<Match(file, Frac(Len(id) * part, Len(syms[j]) * 100), type)>>
        ELSE <<>>)
       \o SymbolsFrom(id, file, syms, type, whole, part, j + 1)

RECURSIVE findClassMatchesFrom(_, _, _)
findClassMatchesFrom(id, index, i) ==
  IF i > Len(index) THEN <<>>
  ELSE SymbolsFrom(id, index[i], index[i].classes, "class", 90, 70, 1)
         \o findClassMatchesFrom(id, index, i + 1)
findClassMatches(id, index) == findClassMatchesFrom(id, index, 1)

RECURSIVE findFunctionMatchesFrom(_, _, _)
findFunctionMatchesFrom(id, index, i) ==
  IF i > Len(index) THEN <<>>
  ELSE SymbolsFrom(id, index[i], index[i].functions, "function", 80, 60, 1)
         \o findFunctionMatchesFrom(id, index, i + 1)
findFunctionMatches(id, index) == findFunctionMatchesFrom(id, index, 1)

RECURSIVE findExportMatchesFrom(_, _, _)
findExportMatchesFrom(id, index, i) ==
  IF i > Len(index) THEN <<>>
  ELSE SymbolsFrom(id, index[i], index[i].exports, "export", 85, 65, 1)
         \o findExportMatchesFrom(id, index, i + 1)
findExportMatches(id, index) == findExportMatchesFrom(id, index, 1)

\* The character-by-character pass of calculateFuzzyScore: how many
\* characters of the needle are found, in order, in the haystack.
RECURSIVE SubsequenceCount(_, _, _, _)
SubsequenceCount(needle, hay, i, k) ==
  IF i > Len(hay) \/ k > Len(needle) THEN k - 1
  ELSE IF hay[i] = needle[k] THEN SubsequenceCount(needle, hay, i + 1, k + 1)
  ELSE SubsequenceCount(needle, hay, i + 1, k)

calculateFuzzyScore(needle, hay) ==
  IF needle = <<>> \/ hay = <<>> THEN Frac(0, 1)
  ELSE IF Includes(ToLower(hay), ToLower(needle))
    THEN Frac(Len(needle), Len(hay))
  ELSE Frac(SubsequenceCount(ToLower(needle), ToLower(hay), 1, 1) * 8,
            Len(needle) * 10)

FuzzyOne(id, file) ==
  LET pathScore == calculateFuzzyScore(id, file.relativePath)
      summaryScore == calculateFuzzyScore(id, file.summary)
  IN (IF FracLess(Frac(3, 10), pathScore)
        THEN <<Match(file, Frac(pathScore.n * 5, pathScore.d * 10), "fuzzy")>>
        ELSE <<>>)
     \o (IF FracLess(Frac(3, 10), summaryScore)
           THEN <<Match(file, Frac(summaryScore.n * 4, summaryScore.d * 10),
                        "fuzzy")>>
           ELSE <<>>)

RECURSIVE findFuzzyMatchesFrom(_, _, _)
findFuzzyMatchesFrom(id, index, i) ==
  IF i > Len(index) THEN <<>>
  ELSE FuzzyOne(id, index[i]) \o findFuzzyMatchesFrom(id, index, i + 1)
findFuzzyMatches(id, index) == findFuzzyMatchesFrom(id, index, 1)

\* Array.prototype.sort((a, b) => b.score - a.score): stable, descending.
RECURSIVE SortByScore(_)
SortByScore(ms) ==
  IF ms = <<>> THEN <<>>
  ELSE LET rest == SortByScore(SubSeq(ms, 1, Len(ms) - 1))
           x == ms[Len(ms)]
           \* x goes after every element whose score is >= its own
           k == Cardinality({i \in 1..Len(rest) :
                               ~FracLess(rest[i].score, x.score)})
       IN SubSeq(rest, 1, k) \o <<x>> \o SubSeq(rest, k + 1, Len(rest))

RECURSIVE deduplicateMatches_KeepsFirst(_)
deduplicateMatches_KeepsFirst(ms) ==
  IF ms = <<>> THEN <<>>
  ELSE LET front == deduplicateMatches_KeepsFirst(SubSeq(ms, 1, Len(ms) - 1))
           x == ms[Len(ms)]
           at == {i \in 1..Len(front) : front[i].file.path = x.file.path}
       IN IF at = {} THEN Append(front, x) ELSE front
RECURSIVE deduplicateMatches(_)
deduplicateMatches(ms) ==
  IF ms = <<>> THEN <<>>
  ELSE LET front == deduplicateMatches(SubSeq(ms, 1, Len(ms) - 1))
           x == ms[Len(ms)]
           at == {i \in 1..Len(front) : front[i].file.path = x.file.path}
       IN IF at = {} THEN Append(front, x)
          ELSE LET e == CHOOSE i \in at : TRUE
               IN IF FracLess(front[e].score, x.score)
                    THEN [front EXCEPT ![e] = x] ELSE front

\* for (const identifier of identifiers) out.push(...pass(identifier, index))
RECURSIVE ExactPass(_, _, _)
ExactPass(ids, index, k) ==
  IF k > Len(ids) THEN <<>>
  ELSE findExactFileMatches(ids[k], index) \o ExactPass(ids, index, k + 1)
RECURSIVE ClassPass(_, _, _)
ClassPass(ids, index, k) ==
  IF k > Len(ids) THEN <<>>
  ELSE findClassMatches(ids[k], index) \o ClassPass(ids, index, k + 1)
RECURSIVE FunctionPass(_, _, _)
FunctionPass(ids, index, k) ==
  IF k > Len(ids) THEN <<>>
  ELSE findFunctionMatches(ids[k], index) \o FunctionPass(ids, index, k + 1)
RECURSIVE ExportPass(_, _, _)
ExportPass(ids, index, k) ==
  IF k > Len(ids) THEN <<>>
  ELSE findExportMatches(ids[k], index) \o ExportPass(ids, index, k + 1)
RECURSIVE FuzzyPass(_, _, _)
FuzzyPass(ids, index, k) ==
  IF k > Len(ids) THEN <<>>
  ELSE findFuzzyMatches(ids[k], index) \o FuzzyPass(ids, index, k + 1)

FilterMinScore_KeepsAll(ms, minScore) == ms
\* .filter(match => match.score >= finalOptions.minScore)
FilterMinScore(ms, minScore) ==
  SelectSeq(ms, LAMBDA m : ~FracLess(m.score, minScore))

\* resolveFiles on an index that is already built.
resolveFiles(instr, index, options) ==
  LET identifiers == extractIdentifiers(instr)
      exactMatches == ExactPass(identifiers, index, 1)
  IN IF exactMatches # <<>>
       THEN SubSeq(SortByScore(exactMatches), 1, 1)
       ELSE LET matches == ClassPass(identifiers, index, 1)
                             \o FunctionPass(identifiers, index, 1)
                             \o ExportPass(identifiers, index, 1)
                             \o (IF options.enableFuzzyMatching
                                   THEN FuzzyPass(identifiers, index, 1)
                                   ELSE <<>>)
                kept == SortByScore(FilterMinScore(deduplicateMatches(matches),
                                                   options.minScore))
            IN SubSeq(kept, 1,
                      IF Len(kept) < options.maxResults
                        THEN Len(kept) ELSE options.maxResults)

\* The files a workspace can hold, in the order findFiles returns them
\* (sorted by path): their FileIndex records.
WorkspaceFiles == <<
  [path |-> <<"/", "w", "/", "a", "p", "p", ".", "t", "s">>,
   relativePath |-> <<"a", "p", "p", ".", "t", "s">>,
   classes |-> <<<<"M", "a", "i", "n">>>>, functions |-> <<<<"m", "a", "i", "n">>>>, exports |-> <<<<"M", "a", "i", "n">>>>,
   summary |-> <<"t", "s", " ", "f", "i", "l", "e">>],
  [path |-> <<"/", "w", "/", "d", "b", ".", "t", "s">>,
   relativePath |-> <<"d", "b", ".", "t", "s">>,
   classes |-> <<<<"D", "b">>>>, functions |-> <<>>, exports |-> <<>>,
   summary |-> <<"t", "s", " ", "f", "i", "l", "e">>],
  [path |-> <<"/", "w", "/", "m", "a", "i", "n", ".", "t", "s">>,
   relativePath |-> <<"m", "a", "i", "n", ".", "t", "s">>,
   classes |-> <<>>, functions |-> <<<<"r", "u", "n">>>>, exports |-> <<<<"r", "u", "n">>>>,
   summary |-> <<"t", "s", " ", "f", "i", "l", "e">>],
  [path |-> <<"/", "w", "/", "m", "a", "i", "n", "H", "e", "l", "p", "e", "r", ".", "t", "s">>,
   relativePath |-> <<"m", "a", "i", "n", "H", "e", "l", "p", "e", "r", ".", "t", "s">>,
   classes |-> <<>>, functions |-> <<<<"h", "e", "l", "p">>>>, exports |-> <<<<"h", "e", "l", "p">>>>,
   summary |-> <<"t", "s", " ", "f", "i", "l", "e">>]
>>

\* The words an instruction is made of.
Vocabulary ==
  {<<"u", "p", "d", "a", "t", "e">>,
   <<"r", "u", "n">>,
   <<"m", "a", "i", "n", ".", "t", "s">>,
   <<"M", "a", "i", "n">>,
   <<"d", "b", ".", "t", "s">>,
   <<"h", "e", "l", "p">>,
   <<"a", "p", "p">>}

RECURSIVE WordSeqs(_)
WordSeqs(n) ==
  IF n = 0 THEN {<<>>}
  ELSE LET shorter == WordSeqs(n - 1)
       IN shorter \cup {Append(ws, w) : ws \in {x \in shorter : Len(x) = n - 1},
                                        w \in Vocabulary}
Instructions == {JoinWords(ws) : ws \in WordSeqs(MaxWords)}

\* Object.values(index): the records of the indexed files, in insertion order.
RECURSIVE Restrict(_, _, _)
Restrict(fs, keep, i) ==
  IF i > Len(fs) THEN <<>>
  ELSE (IF i \in keep THEN <<fs[i]>> ELSE <<>>) \o Restrict(fs, keep, i + 1)
Indexes == {Restrict(WorkspaceFiles, keep, 1) :
              keep \in SUBSET (1..Len(WorkspaceFiles))}

\* finalOptions: the defaults, with what a caller overrides.
ResolverOptionSets ==
  [maxResults : {1, DefaultMaxResults}, minScore : {Frac(1, 10), Frac(1, 2)},
   enableFuzzyMatching : BOOLEAN]

ResolveIdle ==
  /\ instruction = <<>>
  /\ resolveIndex = <<>>
  /\ resolveOptions = [maxResults |-> DefaultMaxResults, minScore |-> Frac(1, 10),
                       enableFuzzyMatching |-> TRUE]
  /\ fileMatches = <<>>
  /\ resolvePc = "off"

ResolveInit ==
  /\ instruction \in Instructions
  /\ resolveIndex \in Indexes
  /\ resolveOptions = [maxResults |-> DefaultMaxResults, minScore |-> Frac(1, 10),
                       enableFuzzyMatching |-> TRUE]
  /\ fileMatches = <<>>
  /\ resolvePc = "ready"

\* resolveFiles(instruction, options)
ResolveFilesReturn ==
  /\ resolvePc = "ready"
  /\ \E options \in ResolverOptionSets :
       /\ resolveOptions' = options
       /\ fileMatches' = resolveFiles(instruction, resolveIndex, options)
  /\ resolvePc' = "done"
  /\ UNCHANGED <<instruction, resolveIndex>>
  /\ UNCHANGED outsideResolve

ResolveNext == ResolveFilesReturn

(***************************************************************************)
(* PromptBuilder and PromptContextComposer: the numbered code block of one *)
(* target file (src/promptBuilder.ts, src/smartFileResolver.ts).           *)
(*                                                                         *)
(* A file on disk has n lines of `len` characters each; score[i] is the    *)
(* relevance the task gives the line of 0-based index i (keywords,         *)
(* declarations, imports).  A string is held as the pieces that            *)
(* split("\n") gives: a line of the file (src is its 1-based position), a  *)
(* cut line, or a line the builder made up (src = 0).                      *)
(***************************************************************************)
Min2(a, b) == IF a < b THEN a ELSE b
Max2(a, b) == IF a > b THEN a ELSE b

FileLine(i) == [src |-> i + 1, text |-> "line"]
CutLine(i) == [src |-> i + 1, text |-> "cut"]
MadeUp(t) == [src |-> 0, text |-> t]

\* lines[a], ..., lines[b]
RangeLines(a, b) == [k \in 1..(b - a + 1) |-> FileLine(a + k - 1)]

\* content.length
ContentLength(f) == f.n * f.len + (f.n - 1)

\* Math.ceil(text.length / 4)
estimateTokens(length) == (length + 3) \div 4

\* tokenEstimate > config.maxTokens * 0.6
shouldTruncate(f) == estimateTokens(ContentLength(f)) * 10 > MaxTokens * 6

\* The loop over the lines: a section around every line of positive score.
RECURSIVE RelevantSectionsFrom(_, _)
RelevantSectionsFrom(f, i) ==
  IF i >= f.n THEN <<>>
  ELSE (IF f.score[i] > 0
          THEN <<[start |-> Max2(0, i - ContextBefore),
                  end |-> Min2(f.n - 1, i + ContextAfter),
                  score |-> f.score[i]]>>
          ELSE <<>>)
       \o RelevantSectionsFrom(f, i + 1)

\* sections.sort((a, b) => b.score - a.score): stable, descending.
RECURSIVE SortSections(_)
SortSections(ss) ==
  IF ss = <<>> THEN <<>>
  ELSE LET rest == SortSections(SubSeq(ss, 1, Len(ss) - 1))
           x == ss[Len(ss)]
           k == Cardinality({i \in 1..Len(rest) : rest[i].score >= x.score})
       IN SubSeq(rest, 1, k) \o <<x>> \o SubSeq(rest, k + 1, Len(rest))

\* The loop of mergeSections: a section is folded into the first merged
\* section it comes within MergeGap lines of, or appended.
RECURSIVE MergeInto(_, _, _)
MergeInto(merged, sections, k) ==
  IF k > Len(sections) THEN merged
  ELSE LET s == sections[k]
           hit == {j \in 1..Len(merged) :
                     /\ s.start <= merged[j].end + MergeGap
                     /\ s.end >= merged[j].start - MergeGap}
       IN IF hit # {}
            THEN LET j == CHOOSE x \in hit : \A y \in hit : x <= y
                     m == merged[j]
                 IN MergeInto([merged EXCEPT ![j] =
                                 [start |-> Min2(m.start, s.start),
                                  end |-> Max2(m.end, s.end),
                                  score |-> Max2(m.score, s.score)]],
                              sections, k + 1)
            ELSE MergeInto(Append(merged, s), sections, k + 1)

mergeSections(sections) == SortSections(MergeInto(<<>>, sections, 1))

\* The loop that builds truncatedContent from the top sections: every line
\* is followed by "\n", and "\n// ... (code omitted) ...\n\n" goes before a
\* section that does not continue the previous one.
RECURSIVE BuildFrom(_, _, _)
BuildFrom(secs, k, lastEnd) ==
  IF k > Len(secs) THEN <<>>
  ELSE (IF secs[k].start > lastEnd + 1 /\ lastEnd >= 0
          THEN <<MadeUp(""), MadeUp("// ... (code omitted) ..."), MadeUp("")>>
          ELSE <<>>)
       \o RangeLines(secs[k].start, secs[k].end)
       \o BuildFrom(secs, k + 1, secs[k].end)

\* content.slice(0, FallbackChars), as pieces
FallbackSlice(f) ==
  LET slen == Min2(ContentLength(f), FallbackChars)
      newlines == Min2(f.n - 1, slen \div (f.len + 1))
  IN [j \in 1..(newlines + 1) |->
        IF j * f.len + (j - 1) <= slen THEN FileLine(j - 1) ELSE CutLine(j - 1)]

truncateContentIntelligently(f) ==
  LET mergedSections == mergeSections(SortSections(RelevantSectionsFrom(f, 0)))
      top == SubSeq(mergedSections, 1, Min2(TopSections, Len(mergedSections)))
      body == BuildFrom(top, 1, -1)
      withHead ==
        IF /\ mergedSections # <<>>
           /\ \E j \in 1..Len(mergedSections) : mergedSections[j].start > HeadLines
          THEN RangeLines(0, Min2(HeadLines, f.n) - 1)
                 \o <<MadeUp(""), MadeUp("// ... (middle content) ..."), MadeUp("")>>
                 \o body
          ELSE body
  IN IF withHead # <<>>
       THEN withHead \o <<MadeUp("")>>   \* what follows the last "\n"
       ELSE FallbackSlice(f)

\* lines.map((line, index) => `${index + 1}: ${line}`), the number padded
addLineNumbersToCode(pieces) ==
  [k \in 1..Len(pieces) |-> [number |-> k, line |-> pieces[k]]]

\* The EDITABLE CODE block of buildContextPrompt, under the promptConfig of
\* generateComposedPrompt (enableTokenOptimization: true).
EditableCode(f) ==
  IF shouldTruncate(f)
    THEN addLineNumbersToCode(truncateContentIntelligently(f))
    ELSE addLineNumbersToCode(RangeLines(0, f.n - 1))

\* The files on disk: the lines of positive score are `count` lines, `stride`
\* apart, from line `first` on.
RelevantAt(first, stride, count) == {first + j * stride : j \in 0..(count - 1)}
ScoreOf(shape, j, count) ==
  CASE shape = "flat" -> 3
    [] shape = "rising" -> j + 1
    [] shape = "falling" -> count - j
DiskFile(n, len, first, stride, count, shape) ==
  [n |-> n, len |-> len,
   score |-> [i \in 0..(n - 1) |->
                IF i \in RelevantAt(first, stride, count)
                  THEN ScoreOf(shape, (i - first) \div stride, count)
                  ELSE 0]]
DiskFiles ==
  {DiskFile(n, len, first, stride, count, shape) :
     n \in 1..MaxLines, len \in {8, 80}, first \in {0, 4, 24},
     stride \in {2, 19}, count \in 0..MaxRelevant,
     shape \in {"flat", "rising", "falling"}}

PromptIdle ==
  /\ promptFile = [n |-> 1, len |-> 0, score |-> [i \in {0} |-> 0]]
  /\ numbered = <<>>
  /\ promptPc = "off"

PromptInit ==
  /\ promptFile \in DiskFiles
  /\ numbered = <<>>
  /\ promptPc = "ready"

\* composePromptContext for one target file: fs.readFileSync, then
\* generateComposedPrompt -> buildStructuredUserPrompt -> buildContextPrompt.
ComposeTargetFile ==
  /\ promptPc = "ready"
  /\ numbered' = EditableCode(promptFile)
  /\ promptPc' = "done"
  /\ UNCHANGED promptFile
  /\ UNCHANGED outsidePrompt

PromptNext == ComposeTargetFile

(***************************************************************************)
(* SmartAgent.applyFileChanges on a line range (unnamed/part_001).         *)
(* A text is a sequence of characters; "\n" is the line break.             *)
(***************************************************************************)
RECURSIVE Texts(_, _)
Texts(chars, n) ==
  IF n = 0 THEN {<<>>}
  ELSE LET shorter == Texts(chars, n - 1)
       IN shorter \cup {Append(t, c) : t \in {x \in shorter : Len(x) = n - 1},
                                       c \in chars}

\* text.split('\n'): the lines, empty ones included.
RECURSIVE SplitLinesFrom(_, _, _)
SplitLinesFrom(text, i, cur) ==
  IF i > Len(text) THEN <<cur>>
  ELSE IF text[i] = "\n" THEN <<cur>> \o SplitLinesFrom(text, i + 1, <<>>)
  ELSE SplitLinesFrom(text, i + 1, Append(cur, text[i]))
SplitLines(text) == SplitLinesFrom(text, 1, <<>>)

\* lines.join('\n')
RECURSIVE JoinLines(_)
JoinLines(lines) ==
  IF lines = <<>> THEN <<>>
  ELSE IF Len(lines) = 1 THEN lines[1]
  ELSE lines[1] \o <<"\n">> \o JoinLines(Tail(lines))

\* lines.slice(0, end): a negative end counts from the end of the array.
SliceTo(lines, end) ==
  LET e == IF end < 0 THEN Max2(Len(lines) + end, 0) ELSE Min2(end, Len(lines))
  IN SubSeq(lines, 1, e)

\* document.positionAt(offset), as an offset: clamped to the document.
PositionAt(text, offset) == Max2(0, Min2(offset, Len(text)))

\* lines.slice(0, startLine - 1).join('\n').length + (startLine > 1 ? 1 : 0)
StartOffset_NoBreak(lines, startLine) ==
  Len(JoinLines(SliceTo(lines, startLine - 1)))
StartOffset(lines, startLine) ==
  Len(JoinLines(SliceTo(lines, startLine - 1))) + (IF startLine > 1 THEN 1 ELSE 0)

\* lines.slice(0, endLine).join('\n').length
EndOffset(lines, endLine) == Len(JoinLines(SliceTo(lines, endLine)))

\* new vscode.Range(a, b): the smaller position is the start.
Range(a, b) == [start |-> Min2(a, b), end |-> Max2(a, b)]

\* The range applyFileChanges computes for a replace or insert change.  An
\* absent line number is {}, the line number n is {n}.
EditRange(text, startLine, endLine) ==
  LET lines == SplitLines(text)
      s == CHOOSE n \in startLine : TRUE
      e == CHOOSE n \in endLine : TRUE
  IN IF startLine # {} /\ endLine # {}
       THEN Range(PositionAt(text, StartOffset(lines, s)),
                  PositionAt(text, EndOffset(lines, e)))
     ELSE IF startLine # {}
       THEN Range(PositionAt(text, StartOffset(lines, s)),
                  PositionAt(text, Len(text)))
     ELSE Range(PositionAt(text, 0), PositionAt(text, Len(text)))

\* editBuilder.replace(range, contentToInsert)
ReplaceRange(text, range, contentToInsert) ==
  SubSeq(text, 1, range.start) \o contentToInsert
    \o SubSeq(text, range.end + 1, Len(text))

\* Documents that hold code, for the function_update changes.
CodeDocuments ==
  {<<"f", "u", "n", "c", "t", "i", "o", "n", " ", "f", "(", ")", " ", "{", "\n", "}">>,
   <<"/", "*", "*", " ", "o", "l", "d", " ", "*", "/", "\n", "f", "u", "n", "c", "t", "i", "o", "n", " ", "f", "(", ")", " ", "{", "\n", " ", " ", "x", "\n", "}", "\n", "y">>,
   <<"x", "\n", "c", "o", "n", "s", "t", " ", "f", " ", "=", " ", "(", ")", " ", "=", ">", " ", "1", ";">>,
   <<"r", "u", "n", "(", "f", ")", ";", "\n", "y">>,
   <<"c", "l", "a", "s", "s", " ", "A", " ", "{", "\n", " ", " ", "/", "/", " ", "c", "\n", " ", " ", "a", "s", "y", "n", "c", " ", "f", " ", "(", "a", ")", " ", "{", "\n", " ", " ", "}", "\n", "}">>,
   <<"f", ":", " ", "a", "s", "y", "n", "c", " ", "(", "a", ")", " ", "=", ">", " ", "{", "\n", "}">>}
Documents == Texts({"a", "b", "\n"}, MaxDocLen)
NewContents == Texts({"x", "\n"}, MaxNewLen)
LineArgs == {{}} \cup {{n} : n \in 0..(MaxDocLen + 2)}
NoEdit == [changeType |-> "none", startLine |-> {}, endLine |-> {},
           newContent |-> <<>>]

ApplyIdle ==
  /\ document = <<>>
  /\ documentBefore = <<>>
  /\ edit = NoEdit
  /\ applied = {}
  /\ applyPc = "off"

ApplyInit ==
  /\ document \in Documents \cup CodeDocuments
  /\ documentBefore = document
  /\ edit = NoEdit
  /\ applied = {}
  /\ applyPc = "ready"

\* applyFileChanges(editor, newContent, startLine, endLine, changeType) for a
\* replace or insert change: the range is computed from the current text,
\* editor.edit applies the replacement or rejects it, a successful edit is
\* saved, and the outcome of editor.edit is returned.
ApplyFileChanges ==
  /\ applyPc = "ready"
  /\ \E changeType \in {"replace", "insert"}, startLine \in LineArgs,
        endLine \in LineArgs, newContent \in NewContents, success \in BOOLEAN :
       /\ edit' = [changeType |-> changeType, startLine |-> startLine,
                   endLine |-> endLine, newContent |-> newContent]
       /\ document' = IF success
                        THEN ReplaceRange(document,
                                          EditRange(document, startLine, endLine),
                                          newContent)
                        ELSE document
       /\ applied' = {success}
  /\ applyPc' = "done"
  /\ UNCHANGED documentBefore
  /\ UNCHANGED outsideApply

(***************************************************************************)
(* PatchEngine (src/patchEngine.ts): one patch operation at a time, from   *)
(* the parsed model response to the result, and the patch history.         *)
(***************************************************************************)
PatchFiles == {"a.ts", "b.ts"}

\* validateSyntax: the bracket stack.  `stack` holds the expected closers,
\* the last pushed at the end.
Closer(c) == CASE c = "(" -> ")" [] c = "[" -> "]" [] c = "{" -> "}"
OpenBrackets == {"(", "[", "{"}
CloseBrackets == {")", "]", "}"}
RECURSIVE BracketScan(_, _, _)
BracketScan(code, i, stack) ==
  IF i > Len(code) THEN stack = <<>>
  ELSE IF code[i] \in OpenBrackets
    THEN BracketScan(code, i + 1, Append(stack, Closer(code[i])))
  ELSE IF code[i] \in CloseBrackets
    THEN IF stack = <<>> \/ stack[Len(stack)] # code[i]
           THEN FALSE
           ELSE BracketScan(code, i + 1, SubSeq(stack, 1, Len(stack) - 1))
  ELSE BracketScan(code, i + 1, stack)
validateSyntax(code) == BracketScan(code, 1, <<>>)

\* The code of a parsed response (empty: the response held no code).
Codes == Texts({"(", ")", "]"}, MaxCodeLen)
\* The alternatives showAlternativesDialog offers.
AlternativeCodes == {<<"(", ")">>, <<"(">>}
\* The contents of the changes of a multi-file response.
ChangeContents == {<<"(", ")">>, <<"(", "]">>}

FileChanges == [filePath : PatchFiles, type : {"modify", "create"},
                content : ChangeContents]
RECURSIVE ChangeLists(_)
ChangeLists(n) ==
  IF n = 0 THEN {<<>>}
  ELSE LET shorter == ChangeLists(n - 1)
       IN shorter \cup {Append(cs, c) : cs \in {x \in shorter : Len(x) = n - 1},
                                        c \in FileChanges}
\* The changes parseMultiFileResponse can return.
MultiFileChanges == ChangeLists(MaxChanges)
SingleFileChanges == ChangeLists(1)

PatchOptions(auto, diff, validate, track, alternatives) ==
  [autoApply |-> auto, showDiff |-> diff, validateSyntax |-> validate,
   trackChanges |-> track, showAlternatives |-> alternatives]
\* The default options of the apply methods, and what callers pass.
DefaultPatchOptions == PatchOptions(FALSE, TRUE, TRUE, TRUE, FALSE)
SmartPatchOptions == PatchOptions(FALSE, TRUE, TRUE, TRUE, TRUE)
PatchOptionSets ==
  {DefaultPatchOptions, SmartPatchOptions,
   PatchOptions(TRUE, TRUE, TRUE, TRUE, FALSE),
   PatchOptions(TRUE, FALSE, FALSE, TRUE, FALSE),
   PatchOptions(FALSE, FALSE, TRUE, FALSE, FALSE),
   PatchOptions(TRUE, FALSE, TRUE, FALSE, TRUE)}

NoPatch == [kind |-> "none", changes |-> <<>>, options |-> DefaultPatchOptions]
PatchOf(kind, changes, options) ==
  [kind |-> kind, changes |-> changes, options |-> options]
OneChange(f, code) == <<[filePath |-> f, type |-> "modify", content |-> code]>>

\* createFailureResult(message, ...), and the result of an attempted commit
Outcome(success, message, successCount, total) ==
  [success |-> success, message |-> message, successCount |-> successCount,
   total |-> total]
Failure(message) == Outcome(FALSE, message, 0, 0)

addToHistory_NoCut(history, entry) == <<entry>> \o history
\* this.patchHistory.unshift(entry), cut to maxHistorySize
addToHistory(history, entry) ==
  LET h == <<entry>> \o history
  IN IF Len(h) > maxHistorySize THEN SubSeq(h, 1, maxHistorySize) ELSE h

\* multiFileChanges.forEach(change => this.addToHistory({...}))
RECURSIVE AddAllToHistory(_, _, _, _)
AddAllToHistory(history, changes, patchType, k) ==
  IF k > Len(changes) THEN history
  ELSE AddAllToHistory(
         addToHistory(history, [filePath |-> changes[k].filePath,
                                patchType |-> patchType, success |-> TRUE]),
         changes, patchType, k + 1)

\* getPatchHistory(filePath)
getPatchHistory(filePath) ==
  SelectSeq(patchHistory, LAMBDA entry : entry.filePath = filePath)

PatchIdle ==
  /\ patchHistory = <<>>
  /\ historyBefore = <<>>
  /\ patchOp = NoPatch
  /\ patchPc = "off"
  /\ patchResult = {}
  /\ checked = 0
  /\ touched = {}
  /\ declined = FALSE
  /\ patchOps = 0

PatchInit ==
  /\ patchHistory = <<>>
  /\ historyBefore = <<>>
  /\ patchOp = NoPatch
  /\ patchPc = "idle"
  /\ patchResult = {}
  /\ checked = 0
  /\ touched = {}
  /\ declined = FALSE
  /\ patchOps = 0

\* An operation begins: what every apply method does on entry.
CanBegin == patchPc = "idle" /\ patchOps < MaxPatchOps
Begin(patch) ==
  /\ CanBegin
  /\ patchOps' = patchOps + 1
  /\ patchOp' = patch
  /\ historyBefore' = patchHistory
  /\ declined' = FALSE
  /\ UNCHANGED patchHistory

\* The operation returns `result` without having applied anything.
ReturnNow(result) ==
  /\ patchPc' = "done"
  /\ patchResult' = {result}

\* The operation suspends at an await: a dialog or the commit of the edit.
Suspend(at) ==
  /\ patchPc' = at
  /\ patchResult' = {}

\* applyInlinePatch and applyGenerationPatch after the alternatives dialog:
\* syntax validation, then the diff preview or the commit.
AfterAlternatives(patch) ==
  IF patch.options.validateSyntax /\ ~validateSyntax(patch.changes[1].content)
    THEN /\ checked' = 1
         /\ ReturnNow(Failure("Generated code has syntax errors"))
    ELSE /\ checked' = IF patch.options.validateSyntax THEN 1 ELSE 0
         /\ IF patch.options.showDiff /\ ~patch.options.autoApply
              THEN Suspend("confirm")
              ELSE Suspend("commit")

\* applyInlinePatch / applyGenerationPatch up to the first await.
StartSingle(kind, f, code, alternatives, options) ==
  LET patch == PatchOf(kind, OneChange(f, code), options)
  IN /\ Begin(patch)
     /\ touched' = {}
     /\ IF code = <<>>
          THEN /\ ReturnNow(Failure("No valid code found in AI response"))
               /\ checked' = 0
        ELSE IF alternatives /\ options.showAlternatives
          THEN /\ Suspend("alternatives")
               /\ checked' = 0
        ELSE AfterAlternatives(patch)

InvalidFiles_None(changes) == <<>>
\* multiFileChanges.filter((_, index) => !validationResults[index])
InvalidFiles(changes) ==
  SelectSeq(changes, LAMBDA change : ~validateSyntax(change.content))

\* applyMultiFilePatch after the confirmation: Promise.all of the syntax
\* checks, then the WorkspaceEdit is built and its commit awaited.
AfterMultiConfirm(patch) ==
  IF patch.options.validateSyntax
    THEN /\ checked' = Len(patch.changes)
         /\ IF InvalidFiles(patch.changes) # <<>>
              THEN ReturnNow(Failure("Syntax errors in files"))
              ELSE Suspend("commit")
    ELSE /\ checked' = 0
         /\ Suspend("commit")

\* applyMultiFilePatch up to the first await.
StartMulti(isMultifile, changes, options) ==
  LET patch == PatchOf("multifile", changes, options)
  IN /\ Begin(patch)
     /\ touched' = {}
     /\ IF ~isMultifile \/ changes = <<>>
          THEN /\ ReturnNow(Failure("No multi-file changes found in response"))
               /\ checked' = 0
        ELSE IF ~options.autoApply
          THEN /\ Suspend("confirm")
               /\ checked' = 0
        ELSE AfterMultiConfirm(patch)

\* PatchEngine.applyInlinePatch(editor, selection, aiResponse, context, options)
ApplyInlinePatch ==
  /\ CanBegin
  /\ \E f \in PatchFiles, code \in Codes, alternatives \in BOOLEAN,
        options \in PatchOptionSets :
       StartSingle("inline", f, code, alternatives, options)
  /\ UNCHANGED outsidePatch

\* PatchEngine.applyGenerationPatch(editor, position, aiResponse, context, options)
ApplyGenerationPatch ==
  /\ CanBegin
  /\ \E f \in PatchFiles, code \in Codes, alternatives \in BOOLEAN,
        options \in PatchOptionSets :
       StartSingle("generation", f, code, alternatives, options)
  /\ UNCHANGED outsidePatch

\* PatchEngine.applyMultiFilePatch(aiResponse, context, options)
ApplyMultiFilePatch ==
  /\ CanBegin
  /\ \E isMultifile \in BOOLEAN, changes \in MultiFileChanges,
        options \in PatchOptionSets :
       StartMulti(isMultifile, changes, options)
  /\ UNCHANGED outsidePatch

\* PatchEngine.applySmartPatch: the parsed patch type chooses the method.
ApplySmartPatch ==
  /\ CanBegin
  /\ \E patchType \in {"inline", "refactor", "generation", "multifile", "other"},
        f \in PatchFiles, code \in AlternativeCodes \cup {<<>>},
        alternatives \in BOOLEAN, changes \in SingleFileChanges :
       CASE patchType = "generation" ->
              StartSingle("generation", f, code, alternatives, SmartPatchOptions)
         [] patchType = "multifile" ->
              StartMulti(TRUE, changes, SmartPatchOptions)
         [] OTHER ->
              StartSingle("inline", f, code, alternatives, SmartPatchOptions)
  /\ UNCHANGED outsidePatch

\* PatchEngine.applyPatchWithConfirmation(editor, selection, aiResponse)
ApplyPatchWithConfirmation ==
  /\ CanBegin
  /\ \E f \in PatchFiles, code \in Codes :
       /\ Begin(PatchOf("confirmation", OneChange(f, code), DefaultPatchOptions))
       /\ IF code = <<>>
            THEN ReturnNow(Failure("No valid code found in AI response"))
            ELSE Suspend("confirm")
  /\ checked' = 0
  /\ touched' = {}
  /\ UNCHANGED outsidePatch

\* The alternatives dialog is answered: a chosen alternative becomes the code.
AlternativesAnswered ==
  /\ patchPc = "alternatives"
  /\ \E choice \in {<<>>} \cup AlternativeCodes :
       IF choice = <<>>
         THEN /\ ReturnNow(Failure("User cancelled alternative selection"))
              /\ UNCHANGED <<patchOp, checked>>
         ELSE LET patch == [patchOp EXCEPT !.changes[1].content = choice]
              IN /\ patchOp' = patch
                 /\ AfterAlternatives(patch)
  /\ UNCHANGED <<patchHistory, historyBefore, touched, declined, patchOps>>
  /\ UNCHANGED outsidePatch

Declines_Never(accepted) == FALSE
\* if (!shouldApply) / if (!confirmed) / if (shouldApply !== 'Apply')
Declines(accepted) == ~accepted

\* The confirmation dialog (diff preview, generation preview, multi-file
\* warning or the modal of applyPatchWithConfirmation) is answered.
ConfirmAnswered ==
  /\ patchPc = "confirm"
  /\ \E accepted \in BOOLEAN :
       /\ declined' = ~accepted
       /\ IF Declines(accepted)
            THEN /\ ReturnNow(Failure("User cancelled"))
                 /\ UNCHANGED checked
          ELSE IF patchOp.kind = "multifile"
            THEN AfterMultiConfirm(patchOp)
          ELSE /\ Suspend("commit")
               /\ UNCHANGED checked
  /\ UNCHANGED <<patchHistory, historyBefore, patchOp, touched, patchOps>>
  /\ UNCHANGED outsidePatch

FilesOf(changes, k) == {changes[i].filePath : i \in 1..k}
HasFileOperation(changes) ==
  \E i \in 1..Len(changes) : changes[i].type # "modify"

\* The result after the commit: applyMultiFilePatch reports the number of
\* changes it put into the WorkspaceEdit (results.filter(r => r).length).
CommitResult(patch, success) ==
  IF patch.kind = "multifile"
    THEN Outcome(success, "codeIt applied changes to successCount/total files",
                 Len(patch.changes), Len(patch.changes))
    ELSE Outcome(success, IF success THEN "applied" ELSE "Failed to apply changes",
                 0, 0)

\* vscode.workspace.applyEdit resolves.  An accepted edit changes every
\* file of the operation; a rejected edit of text changes only changes none,
\* a rejected edit with file operations may have applied the changes before
\* the failing one.  History is added by the methods that track changes.
EditCommitted ==
  /\ patchPc = "commit"
  /\ \E success \in BOOLEAN :
       IF success
         THEN /\ touched' = FilesOf(patchOp.changes, Len(patchOp.changes))
              /\ patchHistory' =
                   IF patchOp.kind # "confirmation" /\ patchOp.options.trackChanges
                     THEN AddAllToHistory(patchHistory, patchOp.changes,
                                          patchOp.kind, 1)
                     ELSE patchHistory
              /\ patchResult' = {CommitResult(patchOp, TRUE)}
         ELSE /\ \E k \in 0..(Len(patchOp.changes) - 1) :
                   /\ k > 0 => HasFileOperation(patchOp.changes)
                   /\ touched' = FilesOf(patchOp.changes, k)
              /\ patchResult' = {CommitResult(patchOp, FALSE)}
              /\ UNCHANGED patchHistory
  /\ patchPc' = "done"
  /\ UNCHANGED <<historyBefore, patchOp, checked, declined, patchOps>>
  /\ UNCHANGED outsidePatch

\* The caller has the result; the engine is ready for the next operation.
PatchReturnStep ==
  /\ patchPc = "done"
  /\ patchPc' = "idle"
  /\ patchOp' = NoPatch
  /\ patchResult' = {}
  /\ checked' = 0
  /\ touched' = {}
  /\ declined' = FALSE
  /\ historyBefore' = <<>>
  /\ UNCHANGED <<patchHistory, patchOps>>
PatchReturn == PatchReturnStep /\ UNCHANGED outsidePatch

\* PatchEngine.clearHistory()
ClearHistoryStep ==
  /\ patchPc = "idle"
  /\ patchHistory # <<>>
  /\ patchHistory' = <<>>
  /\ UNCHANGED <<historyBefore, patchOp, patchPc, patchResult, checked,
                 touched, declined, patchOps>>
ClearHistory == ClearHistoryStep /\ UNCHANGED outsidePatch

\* PatchEngine.undoLastPatch(editor): with a successful entry for the file
\* the editor's undo command runs; the history is left as it is.
UndoLastPatchStep ==
  /\ patchPc = "idle"
  /\ \E f \in PatchFiles :
       LET found == \E i \in 1..Len(patchHistory) :
                      patchHistory[i].filePath = f /\ patchHistory[i].success
       IN /\ patchOp' = PatchOf("undo", OneChange(f, <<>>), DefaultPatchOptions)
          /\ ReturnNow(Outcome(found, "undo", 0, 0))
          /\ touched' = IF found THEN {f} ELSE {}
  /\ historyBefore' = patchHistory
  /\ checked' = 0
  /\ declined' = FALSE
  /\ UNCHANGED <<patchHistory, patchOps>>
UndoLastPatch == UndoLastPatchStep /\ UNCHANGED outsidePatch

PatchNext ==
  \/ ApplyInlinePatch
  \/ ApplyGenerationPatch
  \/ ApplyMultiFilePatch
  \/ ApplySmartPatch
  \/ ApplyPatchWithConfirmation
  \/ AlternativesAnswered
  \/ ConfirmAnswered
  \/ EditCommitted
  \/ PatchReturn
  \/ ClearHistory
  \/ UndoLastPatch

(***************************************************************************)
(* SmartAgent.executeSmartInstruction: index, resolve, compose, call the   *)
(* model, parse and apply.  Every await is a step; a rejected await throws *)
(* into the catch of executeInstructionWithProgress.                       *)
(***************************************************************************)

\* The instructions a caller passes, and finalOptions with what is overridden.
AgentInstructions == {JoinWords(ws) : ws \in WordSeqs(1)}
AgentOptionSets ==
  [enableIndexing : BOOLEAN, maxFilesToProcess : {1, 3},
   applyChangesAutomatically : BOOLEAN]
DefaultAgentOptions ==
  [enableIndexing |-> TRUE, maxFilesToProcess |-> 3,
   applyChangesAutomatically |-> FALSE]

\* The options executeInstructionWithProgress passes to resolveFiles.
AgentResolverOptions(options) ==
  [maxResults |-> options.maxFilesToProcess * 2, minScore |-> Frac(1, 10),
   enableFuzzyMatching |-> TRUE]

\* const result: AgentExecutionResult = { success: false, ... }
NewResult ==
  [success |-> FALSE, filesProcessed |-> 0, changesApplied |-> 0,
   errors |-> <<>>]

\* The messages of the errors callAPI throws: no API key, and what
\* makeRequest throws when its retries are used up.
ApiErrors ==
  {"API key not configured. Please configure your Perplexity API key for codeIt.",
   "Request timeout. Try again or increase timeout in codeIt settings.",
   "Network error. Please check your internet connection.",
   "Invalid response format from Perplexity API"}

\* What parseFileChanges finds in a response: each change names the target
\* file it selects (0: a name that selects none of them).
RECURSIVE ChangeTargets(_)
ChangeTargets(n) ==
  IF n = 0 THEN {<<>>}
  ELSE LET shorter == ChangeTargets(n - 1)
       IN shorter \cup {Append(cs, t) : cs \in {x \in shorter : Len(x) = n - 1},
                                        t \in 0..2}
\* aiResponse.content: empty, or text with the changes parsed from it.
Responses ==
  {[empty |-> TRUE, changes |-> <<>>]}
    \cup {[empty |-> FALSE, changes |-> cs] : cs \in ChangeTargets(MaxAgentChanges)}

NoMatches_Never(found) == FALSE
\* fileMatches.length === 0
NoMatches(found) == Len(found) = 0

\* targetFiles.find(...), then the single target file as the fallback
TargetOf(target, files) ==
  IF target \in 1..Len(files) THEN {target}
  ELSE IF Len(files) = 1 THEN {1}
  ELSE {}

AgentIdle ==
  /\ workspaceIndex = <<>>
  /\ agentIndexed = FALSE
  /\ agentPc = "off"
  /\ agentInstruction = <<>>
  /\ agentOptions = DefaultAgentOptions
  /\ agentResult = NewResult
  /\ agentMatches = {}
  /\ targetFiles = <<>>
  /\ modelCalls = 0
  /\ aiResponse = {}
  /\ callFailed = FALSE
  /\ thrown = {}
  /\ changeIdx = 0
  /\ changeResults = [appliedCount |-> 0, errors |-> <<>>]
  /\ attempts = <<>>
  /\ edited = {}
  /\ agentCalls = 0

AgentInit ==
  /\ workspaceIndex \in Indexes
  /\ agentIndexed \in {b \in BOOLEAN : b => workspaceIndex # <<>>}
  /\ agentPc = "idle"
  /\ agentInstruction = <<>>
  /\ agentOptions = DefaultAgentOptions
  /\ agentResult = NewResult
  /\ agentMatches = {}
  /\ targetFiles = <<>>
  /\ modelCalls = 0
  /\ aiResponse = {}
  /\ callFailed = FALSE
  /\ thrown = {}
  /\ changeIdx = 0
  /\ changeResults = [appliedCount |-> 0, errors |-> <<>>]
  /\ attempts = <<>>
  /\ edited = {}
  /\ agentCalls = 0

\* An await rejects: control goes to the catch block.
Throw(message) ==
  /\ thrown' = {message}
  /\ agentPc' = "catch"

\* SmartAgent.executeSmartInstruction(instruction, options): the options are
\* merged, the result is created and executeInstructionWithProgress entered.
ExecuteSmartInstruction ==
  /\ agentPc = "idle"
  /\ agentCalls < MaxAgentCalls
  /\ agentCalls' = agentCalls + 1
  /\ \E instr \in AgentInstructions, options \in AgentOptionSets :
       /\ agentInstruction' = instr
       /\ agentOptions' = options
  /\ agentResult' = NewResult
  /\ agentMatches' = {}
  /\ targetFiles' = <<>>
  /\ modelCalls' = 0
  /\ aiResponse' = {}
  /\ callFailed' = FALSE
  /\ thrown' = {}
  /\ changeIdx' = 0
  /\ changeResults' = [appliedCount |-> 0, errors |-> <<>>]
  /\ attempts' = <<>>
  /\ edited' = {}
  /\ agentPc' = "index"
  /\ UNCHANGED <<workspaceIndex, agentIndexed>>
  /\ UNCHANGED outsideAgent

\* Step 1: if (options.enableIndexing && !this.indexer.isIndexed())
\*           await this.indexer.buildIndex()
EnsureIndexed ==
  /\ agentPc = "index"
  /\ IF agentOptions.enableIndexing /\ ~agentIndexed
       THEN \E built \in BOOLEAN :
              IF built
                THEN /\ agentIndexed' = (workspaceIndex # <<>>)
                     /\ agentPc' = "resolve"
                     /\ UNCHANGED thrown
                ELSE /\ Throw("Project indexing failed")
                     /\ UNCHANGED agentIndexed
       ELSE /\ agentPc' = "resolve"
            /\ UNCHANGED <<agentIndexed, thrown>>
  /\ UNCHANGED <<workspaceIndex, agentInstruction, agentOptions, agentResult,
                 agentMatches, targetFiles, modelCalls, aiResponse, callFailed,
                 changeIdx, changeResults, attempts, edited, agentCalls>>
  /\ UNCHANGED outsideAgent

\* Step 2: await this.resolver.resolveFiles(instruction, {...}); resolveFiles
\* builds the index itself when there is none.  Without a match the error is
\* pushed and the result returned.
ResolveTargetFiles ==
  /\ agentPc = "resolve"
  /\ \E built \in BOOLEAN :
       IF ~agentIndexed /\ ~built
         THEN /\ Throw("Project indexing failed")
              /\ UNCHANGED <<agentIndexed, agentMatches, agentResult>>
         ELSE LET found == resolveFiles(agentInstruction, workspaceIndex,
                                        AgentResolverOptions(agentOptions))
              IN /\ agentIndexed' = (workspaceIndex # <<>>)
                 /\ agentMatches' = {found}
                 /\ UNCHANGED thrown
                 /\ IF NoMatches(found)
                      THEN /\ agentResult' =
                                [agentResult EXCEPT !.errors =
                                   Append(@, "No relevant files found for the given instruction")]
                           /\ agentPc' = "done"
                      ELSE /\ agentResult' =
                                [agentResult EXCEPT !.filesProcessed =
                                   Min2(Len(found), agentOptions.maxFilesToProcess)]
                           /\ agentPc' = "compose"
  /\ UNCHANGED <<workspaceIndex, agentInstruction, agentOptions, targetFiles,
                 modelCalls, aiResponse, callFailed, changeIdx, changeResults, attempts,
                 edited, agentCalls>>
  /\ UNCHANGED outsideAgent

\* Step 3: await this.composer.composePromptContext(...): targetFiles are the
\* first maxFilesToInclude matches.
ComposeContext ==
  /\ agentPc = "compose"
  /\ \E composed \in BOOLEAN :
       IF composed
         THEN /\ \E found \in agentMatches :
                   targetFiles' =
                     SubSeq(found, 1, Min2(Len(found), agentOptions.maxFilesToProcess))
              /\ agentPc' = "call"
              /\ UNCHANGED thrown
         ELSE /\ Throw("Failed to compose the prompt")
              /\ UNCHANGED targetFiles
  /\ UNCHANGED <<workspaceIndex, agentIndexed, agentInstruction, agentOptions,
                 agentResult, agentMatches, modelCalls, aiResponse, callFailed,
                 changeIdx, changeResults, attempts, edited, agentCalls>>
  /\ UNCHANGED outsideAgent

\* Step 4: await this.api.callAPI(...): a response, or the error callAPI
\* throws (no key, a timeout or another failure after the retries).
CallAPI ==
  /\ agentPc = "call"
  /\ modelCalls' = modelCalls + 1
  /\ \/ \E response \in Responses :
          /\ aiResponse' = {response}
          /\ changeIdx' = 1
          /\ agentPc' = "apply"
          /\ UNCHANGED <<thrown, callFailed>>
     \/ \E message \in ApiErrors :
          /\ Throw(message)
          /\ callFailed' = TRUE
          /\ UNCHANGED <<aiResponse, changeIdx>>
  /\ UNCHANGED <<workspaceIndex, agentIndexed, agentInstruction, agentOptions,
                 agentResult, agentMatches, targetFiles, changeResults, attempts, edited,
                 agentCalls>>
  /\ UNCHANGED outsideAgent

Recorded_SwallowsThrown(results, outcome) ==
  CASE outcome = "applied" ->
         [results EXCEPT !.appliedCount = @ + 1]
    [] outcome = "notfound" ->
         [results EXCEPT !.errors = Append(@, "Target file not found")]
    [] outcome = "failed" ->
         [results EXCEPT !.errors = Append(@, "Failed to apply changes")]
    [] outcome = "threw" -> results
\* What one turn of the loop adds to appliedCount and errors: appliedCount++
\* for an applied change, one errors.push(...) for each kind of failure.
Recorded(results, outcome) ==
  CASE outcome = "applied" ->
         [results EXCEPT !.appliedCount = @ + 1]
    [] outcome = "notfound" ->
         [results EXCEPT !.errors = Append(@, "Target file not found")]
    [] outcome = "failed" ->
         [results EXCEPT !.errors = Append(@, "Failed to apply changes")]
    [] outcome = "threw" ->
         [results EXCEPT !.errors = Append(@, "Error processing")]

\* Step 5, parseAndApplyChanges: one turn of the loop over the parsed
\* changes.  The target file is looked up, opened and applyFileChanges
\* awaited; a failed or throwing apply may have left its edit in the document.
ParseAndApplyChange ==
  /\ agentPc = "apply"
  /\ \E response \in aiResponse :
       /\ changeIdx <= Len(response.changes)
       /\ LET target == TargetOf(response.changes[changeIdx], targetFiles)
          IN IF target = {}
               THEN /\ changeResults' = Recorded(changeResults, "notfound")
                    /\ attempts' = Append(attempts, [outcome |-> "notfound",
                                                     file |-> {}])
                    /\ UNCHANGED edited
               ELSE \E t \in target, outcome \in {"applied", "failed", "threw"},
                       mutated \in BOOLEAN :
                      /\ outcome = "applied" => mutated
                      /\ edited' = IF mutated
                                     THEN edited \cup {targetFiles[t].file.path}
                                     ELSE edited
                      /\ changeResults' = Recorded(changeResults, outcome)
                      /\ attempts' = Append(attempts,
                                            [outcome |-> outcome,
                                             file |-> {targetFiles[t].file.path}])
  /\ changeIdx' = changeIdx + 1
  /\ UNCHANGED <<workspaceIndex, agentIndexed, agentPc, agentInstruction,
                 agentOptions, agentResult, agentMatches, targetFiles,
                 modelCalls, aiResponse, callFailed, thrown, agentCalls>>
  /\ UNCHANGED outsideAgent

\* parseAndApplyChanges has returned: the counts are copied and success is
\* hasCodeChanges || hasResponse.
Conclude ==
  /\ agentPc = "apply"
  /\ \E response \in aiResponse :
       /\ changeIdx > Len(response.changes)
       /\ agentResult' =
            [agentResult EXCEPT
               !.changesApplied = changeResults.appliedCount,
               !.errors = @ \o changeResults.errors,
               !.success = (changeResults.appliedCount > 0) \/ ~response.empty]
  /\ agentPc' = "done"
  /\ UNCHANGED <<workspaceIndex, agentIndexed, agentInstruction, agentOptions,
                 agentMatches, targetFiles, modelCalls, aiResponse, callFailed,
                 thrown, changeIdx, changeResults, attempts, edited, agentCalls>>
  /\ UNCHANGED outsideAgent

\* catch (error) { result.errors.push(error.message) }, then the result is
\* returned.
CatchError ==
  /\ agentPc = "catch"
  /\ \E message \in thrown :
       agentResult' = [agentResult EXCEPT !.errors = Append(@, message)]
  /\ thrown' = {}
  /\ agentPc' = "done"
  /\ UNCHANGED <<workspaceIndex, agentIndexed, agentInstruction, agentOptions,
                 agentMatches, targetFiles, modelCalls, aiResponse, callFailed,
                 changeIdx, changeResults, attempts, edited, agentCalls>>
  /\ UNCHANGED outsideAgent

\* The caller has the result; the agent is ready for the next instruction.
AgentReturn ==
  /\ agentPc = "done"
  /\ agentPc' = "idle"
  /\ agentInstruction' = <<>>
  /\ agentOptions' = DefaultAgentOptions
  /\ agentResult' = NewResult
  /\ agentMatches' = {}
  /\ targetFiles' = <<>>
  /\ modelCalls' = 0
  /\ aiResponse' = {}
  /\ callFailed' = FALSE
  /\ changeIdx' = 0
  /\ changeResults' = [appliedCount |-> 0, errors |-> <<>>]
  /\ attempts' = <<>>
  /\ edited' = {}
  /\ UNCHANGED <<workspaceIndex, agentIndexed, thrown, agentCalls>>
  /\ UNCHANGED outsideAgent

AgentNext ==
  \/ ExecuteSmartInstruction
  \/ EnsureIndexed
  \/ ResolveTargetFiles
  \/ ComposeContext
  \/ CallAPI
  \/ ParseAndApplyChange
  \/ Conclude
  \/ CatchError
  \/ AgentReturn

(***************************************************************************)
(* OutputParser (src/smartFileResolver.ts): parseAIResponse and the        *)
(* classification of a reply.                                              *)
(***************************************************************************)
\* \s
Whitespace == {" ", "\n", "\t"}

\* String.prototype.trim
RECURSIVE TrimStart(_)
TrimStart(s) ==
  IF s # <<>> /\ s[1] \in Whitespace THEN TrimStart(Tail(s)) ELSE s
RECURSIVE TrimEnd(_)
TrimEnd(s) ==
  IF s # <<>> /\ s[Len(s)] \in Whitespace
    THEN TrimEnd(SubSeq(s, 1, Len(s) - 1)) ELSE s
Trim(s) == TrimEnd(TrimStart(s))

\* the word w stands in s at position i
StartsAt(s, i, w) ==
  i + Len(w) - 1 <= Len(s) /\ SubSeq(s, i, i + Len(w) - 1) = w

\* where a greedy \s* started at i stops
SkipSpace(s, i) ==
  CHOOSE j \in i..(Len(s) + 1) :
    /\ \A k \in i..(j - 1) : s[k] \in Whitespace
    /\ j = Len(s) + 1 \/ s[j] \notin Whitespace

\* the positions ^ matches under the m flag
LineStarts(s) == {i \in 1..(Len(s) + 1) : i = 1 \/ s[i - 1] = "\n"}

\* the positions $ matches under the m flag
IsLineEnd(s, i) == i = Len(s) + 1 \/ (i <= Len(s) /\ s[i] = "\n")

\* /^\s*(?:w1|w2|...)/m : the positions right after a match
LedBy(s, words) ==
  UNION {{SkipSpace(s, i) + Len(w) :
            w \in {x \in words : StartsAt(s, SkipSpace(s, i), x)}} :
         i \in LineStarts(s)}

\* /^\s*(?:w1|w2|...)\s+/m
KeywordLed(s, words) ==
  \E e \in LedBy(s, words) : e <= Len(s) /\ s[e] \in Whitespace

\* /^\s*(?:w1|w2|...)\s*$$/m
KeywordAlone(s, words) ==
  \E e \in LedBy(s, words) :
    \E k \in e..(Len(s) + 1) :
      (\A j \in e..(k - 1) : s[j] \in Whitespace) /\ IsLineEnd(s, k)

\* the number of occurrences of w in s, counted left to right without
\* overlap: s.split(w).length - 1
RECURSIVE CountOf(_, _)
CountOf(s, w) ==
  IF Len(s) < Len(w) THEN 0
  ELSE IF StartsAt(s, 1, w)
    THEN 1 + CountOf(SubSeq(s, Len(w) + 1, Len(s)), w)
    ELSE CountOf(Tail(s), w)

\* s.replace(/w/g, '')
RECURSIVE RemoveAll(_, _)
RemoveAll(s, w) ==
  IF Len(s) < Len(w) THEN s
  ELSE IF StartsAt(s, 1, w)
    THEN RemoveAll(SubSeq(s, Len(w) + 1, Len(s)), w)
    ELSE <<s[1]>> \o RemoveAll(Tail(s), w)

\* "tick" is the backtick character, which a TLA+ string cannot hold
Fence == <<"tick", "tick", "tick">>
\* the text of the code-block patterns as the source has them
CodeBlockPattern == <<"tick", "tick", "tick", "tick", "tick", "tick">>

CodePunctuation == {"{", "}", "(", ")", ";"}
DeclarationWords ==
  {<<"f", "u", "n", "c", "t", "i", "o", "n">>, <<"c", "l", "a", "s", "s">>, <<"c", "o", "n", "s", "t">>, <<"l", "e", "t">>, <<"v", "a", "r">>, <<"d", "e", "f">>,
   <<"i", "m", "p", "o", "r", "t">>, <<"f", "r", "o", "m">>}
ControlWords ==
  {<<"i", "f">>, <<"f", "o", "r">>, <<"w", "h", "i", "l", "e">>, <<"s", "w", "i", "t", "c", "h">>, <<"t", "r", "y">>, <<"c", "a", "t", "c", "h">>}
CommentOpeners == {<<"/", "/">>, <<"/", "*">>, <<"#">>}

\* codeIndicators.some(pattern => pattern.test(text))
isCodeLike(text) ==
  \/ \E i \in 1..Len(text) : text[i] \in CodePunctuation
  \/ KeywordLed(text, DeclarationWords)
  \/ KeywordAlone(text, ControlWords)
  \/ LedBy(text, CommentOpeners) # {}

\* /(?:^|\n)(?:##?\s*)?(?:File:|Path:)\s*[^\n]+/i
HeaderWords == {<<"f", "i", "l", "e", ":">>, <<"p", "a", "t", "h", ":">>}
HeaderFrom(s, p) ==
  /\ p + 4 <= Len(s)
  /\ ToLower(SubSeq(s, p, p + 4)) \in HeaderWords
  /\ \E k \in (p + 5)..Len(s) :
       s[k] # "\n" /\ \A j \in (p + 5)..(k - 1) : s[j] \in Whitespace
hasFileHeaders(s) ==
  \E i \in LineStarts(s) :
    \/ HeaderFrom(s, i)
    \/ \E h \in 1..2 :
         /\ \A j \in i..(i + h - 1) : j <= Len(s) /\ s[j] = "#"
         /\ HeaderFrom(s, SkipSpace(s, i + h))

\* textWithoutCode.trim().length > 50
ExplanationChars == 50

detectResponseType(response) ==
  LET hasCodeBlocks == Includes(response, CodeBlockPattern)
      \* codeBlockParts.length > 4
      hasMultipleCodeBlocks == CountOf(response, Fence) + 1 > 4
  IN IF hasFileHeaders(response) \/ hasMultipleCodeBlocks THEN "multifile"
     ELSE IF ~hasCodeBlocks
       THEN (IF isCodeLike(response) THEN "code_only" ELSE "explanation_only")
     ELSE IF Len(Trim(RemoveAll(response, CodeBlockPattern))) > ExplanationChars
       THEN "code_with_explanation"
     ELSE "code_only"

AllSpace(s, i, j) == \A k \in i..j : s[k] \in Whitespace
\* what .* can cover: no line break between i and j
NoBreak(s, i, j) == \A k \in i..j : s[k] # "\n"
Quotes == {"'", "\""}

\* /^\s*import\s+.*from\s+['"].*['"]/m
ImportFromQuoted(s) ==
  \E e \in LedBy(s, {<<"i", "m", "p", "o", "r", "t">>}) :
    \E x \in (e + 1)..Len(s) : \E a \in x..Len(s) :
      /\ AllSpace(s, e, x - 1) /\ NoBreak(s, x, a - 1)
      /\ StartsAt(s, a, <<"f", "r", "o", "m">>)
      /\ \E b \in (a + 5)..Len(s) : \E c \in (b + 1)..Len(s) :
           /\ AllSpace(s, a + 4, b - 1) /\ s[b] \in Quotes
           /\ NoBreak(s, b + 1, c - 1) /\ s[c] \in Quotes
\* /^\s*const\s+.*=\s*require$$/m
ConstRequire(s) ==
  \E e \in LedBy(s, {<<"c", "o", "n", "s", "t">>}) :
    \E x \in (e + 1)..Len(s) : \E a \in x..Len(s) :
      /\ AllSpace(s, e, x - 1) /\ NoBreak(s, x, a - 1) /\ s[a] = "="
      /\ StartsAt(s, SkipSpace(s, a + 1), <<"r", "e", "q", "u", "i", "r", "e">>)
      /\ IsLineEnd(s, SkipSpace(s, a + 1) + 7)
\* /^\s*from\s+.*import/m
FromImport(s) ==
  \E e \in LedBy(s, {<<"f", "r", "o", "m">>}) :
    \E x \in (e + 1)..Len(s) : \E a \in x..Len(s) :
      AllSpace(s, e, x - 1) /\ NoBreak(s, x, a - 1) /\ StartsAt(s, a, <<"i", "m", "p", "o", "r", "t">>)
\* /^\s*public\s+class\s+/m
PublicClass(s) ==
  \E e \in LedBy(s, {<<"p", "u", "b", "l", "i", "c">>}) :
    LET x == SkipSpace(s, e)
    IN x > e /\ StartsAt(s, x, <<"c", "l", "a", "s", "s">>) /\ x + 5 <= Len(s)
       /\ s[x + 5] \in Whitespace
\* /^\s*import\s+java\./m
ImportJava(s) ==
  \E e \in LedBy(s, {<<"i", "m", "p", "o", "r", "t">>}) :
    SkipSpace(s, e) > e /\ StartsAt(s, SkipSpace(s, e), <<"j", "a", "v", "a", ".">>)

detectLanguageFromCode(code) ==
  IF ImportFromQuoted(code) \/ ConstRequire(code) THEN "javascript"
  ELSE IF ImportFromQuoted(code) \/ KeywordLed(code, {<<"i", "n", "t", "e", "r", "f", "a", "c", "e">>})
          \/ KeywordLed(code, {<<"t", "y", "p", "e">>}) THEN "typescript"
  ELSE IF KeywordLed(code, {<<"d", "e", "f">>}) \/ KeywordLed(code, {<<"i", "m", "p", "o", "r", "t">>})
          \/ FromImport(code) THEN "python"
  ELSE IF PublicClass(code) \/ ImportJava(code) THEN "java"
  ELSE "text"

\* a parse context: originalLanguage absent ({}) or given; expectMultiFile
\* absent or false (FALSE) or true
ParseContext(lang, multi) == [originalLanguage |-> lang, expectMultiFile |-> multi]
NoContext == ParseContext({}, FALSE)

calculateCodeOnlyConfidence(code, context) ==
  LET likeCode == IF isCodeLike(code) THEN 2 ELSE 0
      sameLanguage ==
        IF context.originalLanguage # {}
           /\ {detectLanguageFromCode(code)} = context.originalLanguage
          THEN 2 ELSE 0
  IN Frac(Min2(6 + likeCode + sameLanguage, 10), 10)

\* /^\s*(?:import|from|using|include|require)\s+/m
containsImports(code) ==
  KeywordLed(code, {<<"i", "m", "p", "o", "r", "t">>, <<"f", "r", "o", "m">>, <<"u", "s", "i", "n", "g">>, <<"i", "n", "c", "l", "u", "d", "e">>, <<"r", "e", "q", "u", "i", "r", "e">>})

\* /\/\/|\/\*|\*\/|#/
hasInlineComments(code) ==
  \E w \in {<<"/", "/">>, <<"/", "*">>, <<"*", "/">>, <<"#">>} : Includes(code, w)

Returned(out) == [threw |-> {}, out |-> {out}]
Threw(error) == [threw |-> {error}, out |-> {}]

parseCodeOnlyResponse(response, context) ==
  Returned([code |-> response,
            hasCodeBlocks |-> FALSE,
            language |-> IF context.originalLanguage # {}
                           THEN context.originalLanguage
                           ELSE {detectLanguageFromCode(response)},
            confidence |-> calculateCodeOnlyConfidence(response, context),
            patchType |-> "inline",
            metadata |-> [responseType |-> "code_only",
                          codeBlockCount |-> 0,
                          hasInlineComments |-> hasInlineComments(response),
                          preservesFormatting |-> TRUE,
                          containsImports |-> containsImports(response)]])

\* Each of the three patterns of parseMultiFileResponse and the pattern of
\* extractEnhancedCodeBlocks holds CodeBlockPattern and fewer groups than
\* the loop body reads: on a match, match[2] or match[3] is undefined and
\* .trim() throws; without a match the list is empty.
BlockMatchThrows(response) == Includes(response, CodeBlockPattern)

\* parseMultiFileResponseData finds no change and calls
\* parseAIResponse(response, {...context, expectMultiFile: false}), which
\* classifies the same text again.
parseSingle(response, context) ==
  IF BlockMatchThrows(response) THEN Threw("TypeError")
  ELSE parseCodeOnlyResponse(response, context)

parseMultiFileResponseData(response, context) ==
  IF BlockMatchThrows(response) THEN Threw("TypeError")
  \* multifile again: the two functions call each other until the stack
  \* is exhausted
  ELSE IF detectResponseType(Trim(response)) = "multifile"
    THEN Threw("RangeError")
  ELSE parseSingle(Trim(response), [context EXCEPT !.expectMultiFile = FALSE])

parseAIResponse(response, context) ==
  LET trimmed == Trim(response)
      responseType == detectResponseType(trimmed)
  IN IF responseType = "multifile" \/ context.expectMultiFile
       THEN parseMultiFileResponseData(trimmed, context)
       ELSE parseSingle(trimmed, context)

\* Replies are built from these pieces.
ReplyPieces ==
  {<<"o", "k">>, <<" ">>, <<"\n">>, <<"F", "i", "l", "e", ":", " ", "a">>, <<"tick", "tick", "tick">>, <<"tick", "tick", "tick", "\n", "x", "\n", "tick", "tick", "tick", "\n">>, <<"{">>,
   <<"t", "y", "p", "e", " ", "t">>, <<"t", "r", "y">>, <<"#", " ", "h">>, <<"l", "e", "t", " ", "x">>}
RECURSIVE Replies(_)
Replies(n) ==
  IF n = 0 THEN {<<>>}
  ELSE Replies(n - 1) \cup {r \o p : r \in Replies(n - 1), p \in ReplyPieces}
ParseContexts ==
  {ParseContext(lang, multi) :
     lang \in {{}, {"typescript"}, {"text"}}, multi \in BOOLEAN}

ParseIdle ==
  /\ parsePc = "idle"
  /\ reply = <<>>
  /\ parseContext = NoContext
  /\ detected = {}
  /\ parsed = {}
ParseInit == ParseIdle

\* OutputParser.parseAIResponse(response, context)
ParseAIResponse ==
  /\ parsePc = "idle"
  /\ \E response \in Replies(MaxPieces), context \in ParseContexts :
       /\ reply' = response
       /\ parseContext' = context
       /\ detected' = {detectResponseType(Trim(response))}
       /\ parsed' = {parseAIResponse(response, context)}
  /\ parsePc' = "done"
  /\ UNCHANGED outsideParse

\* the caller takes the result
ParseReturn ==
  /\ parsePc = "done"
  /\ parsePc' = "idle"
  /\ reply' = <<>>
  /\ parseContext' = NoContext
  /\ detected' = {}
  /\ parsed' = {}
  /\ UNCHANGED outsideParse

ParseNext ==
  \/ ParseAIResponse
  \/ ParseReturn

(***************************************************************************)
(* SmartAgent.parseFileChanges (part_001).                                 *)
(***************************************************************************)
\* the first position >= i where w stands in s, 0 when there is none
FindFrom(s, w, i) ==
  IF \E k \in i..Len(s) : StartsAt(s, k, w)
    THEN CHOOSE k \in i..Len(s) :
           StartsAt(s, k, w) /\ \A j \in i..(k - 1) : ~StartsAt(s, j, w)
    ELSE 0

\* where a greedy run of characters of C started at i stops
RunEnd(s, i, C) ==
  CHOOSE j \in i..(Len(s) + 1) :
    /\ \A k \in i..(j - 1) : s[k] \in C
    /\ j = Len(s) + 1 \/ s[j] \notin C

\* w stands in s at position i, whatever the case (the i flag)
StartsAtAnyCase(s, i, w) ==
  i + Len(w) - 1 <= Len(s) /\ ToLower(SubSeq(s, i, i + Len(w) - 1)) = w

DigitSeq == <<"0", "1", "2", "3", "4", "5", "6", "7", "8", "9">>
DigitValue(c) == (CHOOSE i \in 1..10 : DigitSeq[i] = c) - 1
\* parseInt of a run of digits
RECURSIVE parseInt(_)
parseInt(ds) ==
  IF ds = <<>> THEN 0
  ELSE 10 * parseInt(SubSeq(ds, 1, Len(ds) - 1)) + DigitValue(ds[Len(ds)])

\* \(lines?\s*(\d+)(?:\s*-\s*(\d+))?\) standing at q: where it ends and its
\* two groups, or nothing
LinesGroup(s, q) ==
  IF ~StartsAtAnyCase(s, q, <<"(", "l", "i", "n", "e">>) THEN {}
  ELSE LET a == q + 5
           b == IF a <= Len(s) /\ LowerChar(s[a]) = "s" THEN a + 1 ELSE a
           d1 == SkipSpace(s, b)
           e1 == RunEnd(s, d1, Digits)
           dash == SkipSpace(s, e1)
           d2 == SkipSpace(s, dash + 1)
           e2 == RunEnd(s, d2, Digits)
       IN IF e1 = d1 THEN {}
          ELSE IF dash <= Len(s) /\ s[dash] = "-" /\ e2 > d2
                  /\ e2 <= Len(s) /\ s[e2] = ")"
            THEN {[end |-> e2 + 1,
                   startLine |-> {parseInt(SubSeq(s, d1, e1 - 1))},
                   endLine |-> {parseInt(SubSeq(s, d2, e2 - 1))}]}
          ELSE IF e1 <= Len(s) /\ s[e1] = ")"
            THEN {[end |-> e1 + 1,
                   startLine |-> {parseInt(SubSeq(s, d1, e1 - 1))},
                   endLine |-> {}]}
          ELSE {}

\* \s*\n```[\w]*\n([\s\S]*?)\n``` from position from on, the fence standing
\* at e: the content and where the match ends, or nothing
BlockAt(s, e, from) ==
  IF e - 1 >= from /\ s[e - 1] = "\n" /\ StartsAt(s, e, Fence)
    THEN LET w == RunEnd(s, e + 3, WordChars)
             k == FindFrom(s, <<"\n">> \o Fence, w + 1)
         IN IF w <= Len(s) /\ s[w] = "\n" /\ k > 0
              THEN {[content |-> SubSeq(s, w + 1, k - 1), end |-> k + 4]}
              ELSE {}
    ELSE {}

\* what follows the file name, the name ending before p
AfterName(s, p) ==
  LET q == SkipSpace(s, p)
      withLines ==
        UNION {{[startLine |-> l.startLine, endLine |-> l.endLine,
                 content |-> b.content, end |-> b.end] :
                  b \in BlockAt(s, SkipSpace(s, l.end), l.end)} :
               l \in LinesGroup(s, q)}
  IN IF withLines # {} THEN withLines
     ELSE {[startLine |-> {}, endLine |-> {},
            content |-> b.content, end |-> b.end] : b \in BlockAt(s, q, p)}

\* the ways fileHeaderWithLinesPattern matches with ## standing at i: the
\* colon taken or not, where the name starts and where it ends
HeaderTries(s, i) ==
  IF ~StartsAt(s, i, <<"#", "#">>) THEN {}
  ELSE LET h == IF i + 2 <= Len(s) /\ s[i + 2] = "#" THEN i + 3 ELSE i + 2
           f == SkipSpace(s, h)
           after == f + 4
           colons == IF after <= Len(s) /\ s[after] = ":" THEN {0, 1} ELSE {0}
       IN IF ~StartsAtAnyCase(s, f, <<"f", "i", "l", "e">>) THEN {}
          ELSE {t \in [colon : colons, from : after..(Len(s) + 1),
                       to : after..(Len(s) + 1)] :
                  /\ t.from >= after + t.colon
                  /\ t.from <= SkipSpace(s, after + t.colon)
                  /\ t.to > t.from
                  /\ NoBreak(s, t.from, t.to - 1)
                  /\ AfterName(s, t.to) # {}}

\* the order in which the matcher tries them: the colon first, the longest
\* \s* first, the shortest name first
TriedBefore(t, u) ==
  \/ t.colon > u.colon
  \/ t.colon = u.colon /\ t.from > u.from
  \/ t.colon = u.colon /\ t.from = u.from /\ t.to < u.to

\* the match of fileHeaderWithLinesPattern that starts at i, or nothing
HeaderMatchAt(s, i) ==
  LET First(tries) == {x \in tries : \A y \in tries \ {x} : TriedBefore(x, y)}
  IN UNION {{[name |-> SubSeq(s, t.from, t.to - 1),
              startLine |-> rest.startLine, endLine |-> rest.endLine,
              content |-> rest.content, end |-> rest.end] :
               rest \in AfterName(s, t.to)} :
            t \in First(HeaderTries(s, i))}

\* s.replace(/[C]/g, '')
RECURSIVE Without(_, _)
Without(s, C) ==
  IF s = <<>> THEN <<>>
  ELSE IF s[1] \in C THEN Without(Tail(s), C)
  ELSE <<s[1]>> \o Without(Tail(s), C)

\* content.replace(/^\s*\d+:\s*/gm, '')
RECURSIVE StripLineNumbersFrom(_, _)
StripLineNumbersFrom(s, i) ==
  IF i > Len(s) THEN <<>>
  ELSE LET d == SkipSpace(s, i)
           e == RunEnd(s, d, Digits)
       IN IF i \in LineStarts(s) /\ e > d /\ e <= Len(s) /\ s[e] = ":"
            THEN StripLineNumbersFrom(s, SkipSpace(s, e + 1))
            ELSE <<s[i]>> \o StripLineNumbersFrom(s, i + 1)
StripLineNumbers(s) == StripLineNumbersFrom(s, 1)

DocOpen == <<"/", "*", "*">>
DocClose == <<"*", "/">>

FileChange(name, content, startLine, endLine, type) ==
  [fileName |-> name, newContent |-> content, startLine |-> startLine,
   endLine |-> endLine, changeType |-> type]

\* the body of the loop of Pattern 1 for one match
HeaderChange(hit) ==
  LET fileName == Trim(hit.name)
      cleanFileName == Trim(Without(fileName, {"tick", "*"}))
      cleanContent == Trim(hit.content)
      contentLines == CountOf(hit.content, <<"\n">>) + 1
  IN IF fileName = <<>> \/ hit.content = <<>> THEN <<>>
     ELSE IF Includes(hit.content, DocOpen) /\ Includes(hit.content, DocClose)
       THEN <<FileChange(cleanFileName, StripLineNumbers(cleanContent),
                         {}, {}, "function_update")>>
     ELSE IF hit.startLine # {}
       THEN <<FileChange(cleanFileName, cleanContent, hit.startLine,
                \* endLine || (startLine + contentLines - 1)
                IF hit.endLine \notin {{}, {0}} THEN hit.endLine
                ELSE {x + contentLines - 1 : x \in hit.startLine},
                "replace")>>
     ELSE <<FileChange(cleanFileName, cleanContent, hit.startLine,
                       hit.endLine, "replace")>>

\* the match of functionDocPattern /```[\w]*\n([\s\S]*?)\*\//gi at i
DocBlockMatchAt(s, i) ==
  IF ~StartsAt(s, i, Fence) THEN {}
  ELSE LET w == RunEnd(s, i + 3, WordChars)
           k == FindFrom(s, DocClose, w + 1)
       IN IF w <= Len(s) /\ s[w] = "\n" /\ k > 0
            THEN {[content |-> SubSeq(s, w + 1, k - 1), end |-> k + 2]}
            ELSE {}

DeclarationKeywords == {<<"c", "o", "n", "s", "t">>, <<"l", "e", "t">>, <<"v", "a", "r">>, <<"f", "u", "n", "c", "t", "i", "o", "n">>}
\* the match of functionDocWithCodePattern
\* /(\/\*\*[\s\S]*?\*\/)\s*\n\s*(const|let|var|function)\s+(\w+)/gi at i
DocWithCodeMatchAt(s, i) ==
  IF ~StartsAt(s, i, DocOpen) THEN {}
  ELSE LET ends ==
             {k \in (i + 3)..Len(s) :
                /\ StartsAt(s, k, DocClose)
                /\ \E j \in (k + 2)..(SkipSpace(s, k + 2) - 1) : s[j] = "\n"
                /\ \E w \in DeclarationKeywords :
                     LET n == SkipSpace(s, k + 2) + Len(w)
                     IN /\ StartsAtAnyCase(s, SkipSpace(s, k + 2), w)
                        /\ n < SkipSpace(s, n)
                        /\ SkipSpace(s, n) < RunEnd(s, SkipSpace(s, n), WordChars)}
       IN IF ends = {} THEN {}
          ELSE LET k == CHOOSE x \in ends : \A y \in ends : x <= y
                   w == CHOOSE x \in DeclarationKeywords :
                          StartsAtAnyCase(s, SkipSpace(s, k + 2), x)
                   n == SkipSpace(s, SkipSpace(s, k + 2) + Len(w))
               IN {[docContent |-> SubSeq(s, i, k + 1),
                    functionName |-> SubSeq(s, n, RunEnd(s, n, WordChars) - 1),
                    end |-> RunEnd(s, n, WordChars)]}

\* the match of codeBlockPattern /```[\w]*\s*\/\/\s*([^\n]+)\n([\s\S]*?)```/gi
\* at i
CommentedBlockMatchAt(s, i) ==
  IF ~StartsAt(s, i, Fence) THEN {}
  ELSE LET x == SkipSpace(s, RunEnd(s, i + 3, WordChars))
           starts ==
             {y \in (x + 2)..SkipSpace(s, x + 2) :
                LET z == RunEnd(s, y, {c \in {s[j] : j \in 1..Len(s)} : c # "\n"})
                IN z > y /\ z <= Len(s) /\ FindFrom(s, Fence, z + 1) > 0}
       IN IF ~StartsAt(s, x, <<"/", "/">>) \/ starts = {} THEN {}
          ELSE LET y == CHOOSE a \in starts : \A b \in starts : a >= b
                   z == RunEnd(s, y, {c \in {s[j] : j \in 1..Len(s)} : c # "\n"})
                   k == FindFrom(s, Fence, z + 1)
               IN {[name |-> SubSeq(s, y, z - 1),
                    content |-> SubSeq(s, z + 1, k - 1), end |-> k + 3]}

\* the match of the fallback codeBlockPattern /```[\w]*\n([\s\S]*?)```/gi
\* at i
PlainBlockMatchAt(s, i) ==
  IF ~StartsAt(s, i, Fence) THEN {}
  ELSE LET w == RunEnd(s, i + 3, WordChars)
           k == FindFrom(s, Fence, w + 1)
       IN IF w <= Len(s) /\ s[w] = "\n" /\ k > 0
            THEN {[content |-> SubSeq(s, w + 1, k - 1), end |-> k + 3]}
            ELSE {}

MatchAt(pattern, s, i) ==
  CASE pattern = "header" -> HeaderMatchAt(s, i)
    [] pattern = "doc" -> DocBlockMatchAt(s, i)
    [] pattern = "docWithCode" -> DocWithCodeMatchAt(s, i)
    [] pattern = "commented" -> CommentedBlockMatchAt(s, i)
    [] pattern = "plain" -> PlainBlockMatchAt(s, i)

\* while ((match = pattern.exec(aiResponse)) !== null): the matches from
\* position i on, left to right
RECURSIVE ExecAll(_, _, _)
ExecAll(pattern, s, i) ==
  IF i > Len(s) THEN <<>>
  ELSE LET Onwards(hits) ==
             IF hits = {} THEN ExecAll(pattern, s, i + 1)
             ELSE LET hit == CHOOSE x \in hits : TRUE
                  IN <<hit>> \o ExecAll(pattern, s, hit.end)
       IN Onwards(MatchAt(pattern, s, i))

\* Number.prototype.toString
RECURSIVE ToDigits(_)
ToDigits(n) ==
  IF n < 10 THEN <<DigitSeq[n + 1]>>
  ELSE ToDigits(n \div 10) \o <<DigitSeq[(n % 10) + 1]>>

\* cleanedContent.match(/\*\s*(\w+)\s*-/): the name, or nothing
FunctionNameIn(s) ==
  LET found ==
        {i \in 1..Len(s) :
           /\ s[i] = "*"
           /\ SkipSpace(s, i + 1) < RunEnd(s, SkipSpace(s, i + 1), WordChars)
           /\ LET e == SkipSpace(s, RunEnd(s, SkipSpace(s, i + 1), WordChars))
              IN e <= Len(s) /\ s[e] = "-"}
  IN IF found = {} THEN {}
     ELSE LET i == CHOOSE x \in found : \A y \in found : x <= y
          IN {SubSeq(s, SkipSpace(s, i + 1),
                     RunEnd(s, SkipSpace(s, i + 1), WordChars) - 1)}

\* Pattern 2, the body of the loop for one match
DocBlockChange(hit) ==
  LET cleanedContent == StripLineNumbers(Trim(hit.content))
  IN IF Trim(hit.content) = <<>> \/ ~Includes(hit.content, DocOpen) THEN <<>>
     ELSE IF FunctionNameIn(cleanedContent) # {}
       THEN <<FileChange(CHOOSE n \in FunctionNameIn(cleanedContent) : TRUE,
                         cleanedContent, {}, {}, "function_update")>>
     ELSE <<FileChange(<<"f", "u", "n", "c", "t", "i", "o", "n", "_", "u", "p", "d", "a", "t", "e">>, cleanedContent, {}, {},
                       "function_update")>>

\* Pattern 2.5, the body of the loop for one match
DocWithCodeChange(hit) ==
  IF Trim(hit.docContent) = <<>> \/ hit.functionName = <<>> THEN <<>>
  ELSE <<FileChange(hit.functionName,
                    StripLineNumbers(Trim(hit.docContent)), {}, {},
                    "function_update")>>

\* Pattern 3, the body of the loop for one match
CommentedBlockChange(hit) ==
  IF Trim(hit.name) = <<>> \/ hit.content = <<>> THEN <<>>
  ELSE <<FileChange(Trim(hit.name), Trim(hit.content), {}, {}, "replace")>>

\* Pattern 4, the body of the loop: blockIndex counts the changes pushed
RECURSIVE PlainBlockChanges(_, _, _)
PlainBlockChanges(hits, k, blockIndex) ==
  IF k > Len(hits) THEN <<>>
  ELSE IF Trim(hits[k].content) = <<>>
    THEN PlainBlockChanges(hits, k + 1, blockIndex)
  ELSE <<FileChange(<<"m", "o", "d", "i", "f", "i", "e", "d", "_", "f", "i", "l", "e", "_">> \o ToDigits(blockIndex + 1),
                    Trim(hits[k].content), {}, {}, "replace")>>
       \o PlainBlockChanges(hits, k + 1, blockIndex + 1)

ChangeOf(pattern, hit) ==
  CASE pattern = "header" -> HeaderChange(hit)
    [] pattern = "doc" -> DocBlockChange(hit)
    [] pattern = "docWithCode" -> DocWithCodeChange(hit)
    [] pattern = "commented" -> CommentedBlockChange(hit)

RECURSIVE ChangesOf(_, _, _)
ChangesOf(pattern, hits, k) ==
  IF k > Len(hits) THEN <<>>
  ELSE ChangeOf(pattern, hits[k]) \o ChangesOf(pattern, hits, k + 1)

PatternChanges(pattern, aiText) ==
  LET Changes(hits) ==
        IF pattern = "plain" THEN PlainBlockChanges(hits, 1, 0)
        ELSE ChangesOf(pattern, hits, 1)
  IN Changes(ExecAll(pattern, aiText, 1))

\* each later pattern runs only if (changes.length === 0)
RECURSIVE FirstYield(_, _)
FirstYield(patterns, aiText) ==
  IF patterns = <<>> THEN <<>>
  ELSE LET Yield(changes) ==
             IF changes # <<>> THEN changes
             ELSE FirstYield(Tail(patterns), aiText)
       IN Yield(PatternChanges(patterns[1], aiText))

parseFileChanges(aiText) ==
  FirstYield(<<"header", "doc", "docWithCode", "commented", "plain">>, aiText)

\* Replies of the form the prompt asks for: a header naming the file and
\* the lines X-Y, then a fenced block of Y - X + 1 lines.
HeaderNames == {<<"x", ".", "t", "s">>, <<"a", " ", "b", ".", "m", "d">>}
FenceTags == {<<>>, <<"t", "s">>}
FirstLines == {1, 9}
BlockLines == {<<"a">>, <<" ", " ", "b">>, <<>>, <<"c", ";", " ">>, <<"/", "*", "*", " ", "f", " ", "-", " ", "d", " ", "*", "/">>}
RECURSIVE LineSeqs(_)
LineSeqs(n) ==
  IF n = 1 THEN {<<l>> : l \in BlockLines}
  ELSE LineSeqs(n - 1)
       \cup {Append(ls, l) : ls \in LineSeqs(n - 1), l \in BlockLines}
ReplyForms ==
  [name : HeaderNames, tag : FenceTags, first : FirstLines,
   lines : LineSeqs(MaxBlockLines)]
LastLine(form) == form.first + Len(form.lines) - 1
\* the text of the reply
ReplyText(form) ==
  <<"#", "#", "#", " ", "F", "i", "l", "e", ":", " ">> \o form.name \o <<" ", "(", "l", "i", "n", "e", "s", " ">> \o ToDigits(form.first)
  \o <<"-">> \o ToDigits(LastLine(form)) \o <<")", "\n">>
  \o Fence \o form.tag \o <<"\n">> \o JoinLines(form.lines) \o <<"\n">>
  \o Fence

\* the same reply under a header for one line: ### File: name (line X)
SingleLineText(form) ==
  <<"#", "#", "#", " ", "F", "i", "l", "e", ":", " ">> \o form.name \o <<" ", "(", "l", "i", "n", "e", " ">> \o ToDigits(form.first)
  \o <<")", "\n">>
  \o Fence \o form.tag \o <<"\n">> \o JoinLines(form.lines) \o <<"\n">>
  \o Fence

ChangesIdle ==
  /\ changesPc = "idle"
  /\ replyForm = {}
  /\ replyText = <<>>
  /\ parsedChanges = <<>>
ChangesInit == ChangesIdle

\* const fileChanges = this.parseFileChanges(aiResponse)
ParseFileChanges ==
  /\ changesPc = "idle"
  /\ \E form \in ReplyForms :
       /\ replyForm' = {form}
       /\ replyText' = ReplyText(form)
       /\ parsedChanges' = parseFileChanges(ReplyText(form))
  /\ changesPc' = "done"
  /\ UNCHANGED outsideChanges

\* parseFileChanges(aiResponse) for a reply with a header for one line
ParseSingleLineChange ==
  /\ changesPc = "idle"
  /\ \E form \in ReplyForms :
       /\ replyForm' = {form}
       /\ replyText' = SingleLineText(form)
       /\ parsedChanges' = parseFileChanges(SingleLineText(form))
  /\ changesPc' = "done"
  /\ UNCHANGED outsideChanges

\* the caller takes the list
ChangesReturn ==
  /\ changesPc = "done"
  /\ changesPc' = "idle"
  /\ replyForm' = {}
  /\ replyText' = <<>>
  /\ parsedChanges' = <<>>
  /\ UNCHANGED outsideChanges

ChangesNext ==
  \/ ParseFileChanges
  \/ ParseSingleLineChange
  \/ ChangesReturn

(***************************************************************************)
(* SmartAgent.applyFileChanges for a function_update change, and           *)
(* findFunctionInCode (part_001).                                          *)
(***************************************************************************)
\* \s*[=:]?\s*(?:async\s*)?\( standing at a; assign tells whether [=:] may
\* stand there, must, or is not part of the pattern
OpenParenAfter(s, a, assign) ==
  LET b == SkipSpace(s, a)
      taken == assign # "none" /\ b <= Len(s) /\ s[b] \in {"=", ":"}
      c == SkipSpace(s, IF taken THEN b + 1 ELSE b)
      p == IF StartsAt(s, c, <<"a", "s", "y", "n", "c">>) THEN SkipSpace(s, c + 5) ELSE c
  IN /\ assign = "must" => taken
     /\ p <= Len(s) /\ s[p] = "("

\* (?:function|const|let|var)\s+NAME\s*[=:]?\s*(?:async\s*)?\( at i
DeclaredAt(name, s, i) ==
  \E w \in DeclarationKeywords :
    /\ StartsAt(s, i, w)
    /\ SkipSpace(s, i + Len(w)) > i + Len(w)
    /\ StartsAt(s, SkipSpace(s, i + Len(w)), name)
    /\ OpenParenAfter(s, SkipSpace(s, i + Len(w)) + Len(name), "may")

\* NAME\s*[:=]\s*(?:async\s*)?\( at i
AssignedAt(name, s, i) ==
  StartsAt(s, i, name) /\ OpenParenAfter(s, i + Len(name), "must")

Modifiers == {<<"p", "u", "b", "l", "i", "c">>, <<"p", "r", "i", "v", "a", "t", "e">>, <<"p", "r", "o", "t", "e", "c", "t", "e", "d">>}
\* (?:public|private|protected)?\s*(?:async\s*)?NAME\s*\( at i
MethodAt(name, s, i) ==
  \E j \in {i} \cup {i + Len(w) : w \in {x \in Modifiers : StartsAt(s, i, x)}} :
    \E k \in {SkipSpace(s, j)}
             \cup {SkipSpace(s, SkipSpace(s, j) + 5) :
                     x \in {y \in {<<"a", "s", "y", "n", "c">>} : StartsAt(s, SkipSpace(s, j), y)}} :
      StartsAt(s, k, name) /\ OpenParenAfter(s, k + Len(name), "none")

ShapeAt(shape, name, s, i) ==
  CASE shape = 1 -> DeclaredAt(name, s, i)
    [] shape = 2 -> AssignedAt(name, s, i)
    [] shape = 3 -> MethodAt(name, s, i)

\* for (const pattern of functionPatterns) { match = pattern.exec(...) }:
\* match.index of the first pattern that matches, counted from 0, or nothing
DeclarationIndex(name, s) ==
  LET Least(hits) == {i - 1 : i \in {x \in hits : \A j \in hits : x <= j}}
      FirstOf(shapes) ==
        IF shapes[1] # {} THEN Least(shapes[1])
        ELSE IF shapes[2] # {} THEN Least(shapes[2])
        ELSE Least(shapes[3])
  IN FirstOf([shape \in 1..3 |->
                {i \in 1..Len(s) : ShapeAt(shape, name, s, i)}])

\* the loop over the characters from startIndex on: endIndex, which stays
\* startIndex when no brace closes the first opened one
RECURSIVE BraceEnd(_, _, _, _, _)
BraceEnd(s, startIndex, i, braceCount, foundOpenBrace) ==
  IF i >= Len(s) THEN startIndex
  ELSE IF s[i + 1] = "{" THEN BraceEnd(s, startIndex, i + 1, braceCount + 1, TRUE)
  ELSE IF s[i + 1] = "}"
    THEN IF foundOpenBrace /\ braceCount - 1 = 0 THEN i + 1
         ELSE BraceEnd(s, startIndex, i + 1, braceCount - 1, foundOpenBrace)
  ELSE BraceEnd(s, startIndex, i + 1, braceCount, foundOpenBrace)

\* currentPos when the loop over the lines reaches line i, counted from 0
LinePos(lines, i) == Len(JoinLines(SubSeq(lines, 1, i))) + (IF i > 0 THEN 1 ELSE 0)

\* line.startsWith(w)
StartsWith(line, w) == StartsAt(line, 1, w)

\* the loop backwards from the function: the line where the documentation
\* starts, or the function's line
RECURSIVE InsertLine(_, _, _)
InsertLine(lines, i, functionStartLine) ==
  IF i < 0 THEN functionStartLine
  ELSE LET line == Trim(lines[i + 1])
       IN IF line = <<>> THEN InsertLine(lines, i - 1, functionStartLine)
          ELSE IF StartsWith(line, DocOpen) \/ StartsWith(line, <<"*">>)
            THEN LET above == {d \in 0..i : \A k \in d..(i - 1) :
                                 \/ StartsWith(Trim(lines[k + 1]), <<"*">>)
                                 \/ StartsWith(Trim(lines[k + 1]), DocOpen)}
                 IN CHOOSE d \in above : \A e \in above : d <= e
          ELSE IF ~StartsWith(line, <<"/", "/">>) /\ ~StartsWith(line, <<"/", "*">>)
            THEN functionStartLine
          ELSE InsertLine(lines, i - 1, functionStartLine)

\* new vscode.Position(line, 0) as an offset of the text, a line past the
\* last one being the end of the text
LineOffset(text, lines, line) ==
  IF line >= Len(lines) THEN Len(text) ELSE LinePos(lines, line)

\* findFunctionInCode(newContent, documentText): nothing for null
findFunctionInCode(newContent, documentText) ==
  LET lines == SplitLines(documentText)
      \* the function found from startIndex to endIndex
      FunctionMatch(startIndex, endIndex) ==
        LET functionStartLine ==
              CHOOSE i \in 0..(Len(lines) - 1) :
                LinePos(lines, i) <= startIndex /\ startIndex < LinePos(lines, i + 1)
            functionEndLine ==
              CHOOSE i \in 0..(Len(lines) - 1) :
                /\ endIndex <= LinePos(lines, i + 1)
                /\ \A j \in 0..(i - 1) : endIndex > LinePos(lines, j + 1)
            insertLine == InsertLine(lines, functionStartLine - 1, functionStartLine)
        IN IF endIndex <= startIndex THEN {}
           ELSE {[range |-> Range(LineOffset(documentText, lines, insertLine),
                                  LineOffset(documentText, lines, functionEndLine + 1)),
                  newContent |-> Trim(newContent) \o <<"\n">>
                                   \o SubSeq(documentText, startIndex + 1, endIndex)]}
  IN UNION {UNION {FunctionMatch(startIndex,
                                 BraceEnd(documentText, startIndex, startIndex, 0, FALSE)) :
                     startIndex \in DeclarationIndex(functionName, documentText)} :
            functionName \in FunctionNameIn(newContent)}

WholeDocument_Start(text) == Range(PositionAt(text, 0), PositionAt(text, 0))
\* new vscode.Range(document.positionAt(0),
\*                  document.positionAt(documentText.length))
WholeDocument(text) == Range(PositionAt(text, 0), PositionAt(text, Len(text)))

\* The documentation a function_update change carries.
DocContents == {<<"/", "*", "*", " ", "f", " ", "-", " ", "d", " ", "*", "/">>, <<"/", "*", "*", "\n", " ", "*", " ", "g", " ", "-", " ", "d", "\n", " ", "*", "/", "\n">>, <<"/", "*", "*", " ", "d", " ", "*", "/">>}

\* applyFileChanges(editor, newContent, startLine, endLine,
\* 'function_update'): the function's range and the documentation put before
\* the function, or the whole document when findFunctionInCode finds
\* nothing; editor.edit applies the replacement or rejects it.
ApplyFunctionUpdate ==
  /\ applyPc = "ready"
  /\ \E newContent \in DocContents, success \in BOOLEAN :
       LET Replaced(functionMatch) ==
             LET found == CHOOSE f \in functionMatch : TRUE
                 range == IF functionMatch # {} THEN found.range
                          ELSE WholeDocument(document)
                 contentToInsert == IF functionMatch # {} THEN found.newContent
                                    ELSE newContent
             IN ReplaceRange(document, range, contentToInsert)
       IN /\ edit' = [changeType |-> "function_update", startLine |-> {},
                      endLine |-> {}, newContent |-> newContent]
          /\ document' = IF success
                           THEN Replaced(findFunctionInCode(newContent, document))
                           ELSE document
          /\ applied' = {success}
  /\ applyPc' = "done"
  /\ UNCHANGED documentBefore
  /\ UNCHANGED outsideApply

ApplyNext ==
  \/ ApplyFileChanges
  \/ ApplyFunctionUpdate

(***************************************************************************)
(* PatchEngine.patchHistory under additions, clearHistory and              *)
(* undoLastPatch (src/patchEngine.ts).                                     *)
(***************************************************************************)
outsidePatchAndHistory == <<indexVars, resolveVars, promptVars, applyVars, agentVars, parseVars, changesVars, cleanVars, requestVars>>
outsideClean == <<indexVars, resolveVars, promptVars, applyVars, patchVars, agentVars, parseVars, changesVars, historyVars, requestVars>>
outsideRequest == <<indexVars, resolveVars, promptVars, applyVars, patchVars, agentVars, parseVars, changesVars, historyVars, cleanVars>>

\* The entry of the n-th addition: id stands for generateId() and the
\* timestamp, which differ from entry to entry.
HistoryEntry(n) ==
  [id |-> n,
   filePath |-> IF n % 2 = 1 THEN "a.ts" ELSE "b.ts",
   patchType |-> "inline",
   success |-> n % 3 # 0]

HistoryIdle ==
  /\ added = <<>>
  /\ historyAdds = 0
HistoryInit == HistoryIdle

\* this.addToHistory(entry), as the apply methods call it
AddToHistory ==
  /\ patchPc = "idle"
  /\ historyAdds < MaxHistoryAdds
  /\ patchHistory' = addToHistory(patchHistory, HistoryEntry(historyAdds + 1))
  /\ added' = <<HistoryEntry(historyAdds + 1)>> \o added
  /\ historyAdds' = historyAdds + 1
  /\ UNCHANGED <<historyBefore, patchOp, patchPc, patchResult, checked,
                 touched, declined, patchOps>>
  /\ UNCHANGED outsidePatchAndHistory

\* PatchEngine.clearHistory()
HistoryClear ==
  /\ ClearHistoryStep
  /\ added' = <<>>
  /\ UNCHANGED historyAdds
  /\ UNCHANGED outsidePatchAndHistory

\* PatchEngine.undoLastPatch(editor)
HistoryUndo ==
  /\ UndoLastPatchStep
  /\ UNCHANGED historyVars
  /\ UNCHANGED outsidePatchAndHistory

\* undoLastPatch has returned
HistoryReturn ==
  /\ PatchReturnStep
  /\ UNCHANGED historyVars
  /\ UNCHANGED outsidePatchAndHistory

HistoryNext ==
  \/ AddToHistory
  \/ HistoryClear
  \/ HistoryUndo
  \/ HistoryReturn

(***************************************************************************)
(* OutputParser.cleanCode (src/smartFileResolver.ts).                      *)
(***************************************************************************)
\* code.replace(/^```(\w*)\n/, '')
StripOpeningFence(code) ==
  LET Cut(w) == IF w <= Len(code) /\ code[w] = "\n"
                  THEN SubSeq(code, w + 1, Len(code)) ELSE code
  IN IF StartsAt(code, 1, Fence) THEN Cut(RunEnd(code, 4, WordChars)) ELSE code

\* code.replace(/\n```$/g, '')
StripClosingFence(code) ==
  IF Len(code) >= 4 /\ StartsAt(code, Len(code) - 3, <<"\n">> \o Fence)
    THEN SubSeq(code, 1, Len(code) - 4) ELSE code

cleanCode_NoTrim(code) == StripClosingFence(StripOpeningFence(code))
\* OutputParser.cleanCode(code)
cleanCode(code) == Trim(StripClosingFence(StripOpeningFence(code)))

\* The texts handed to cleanCode: up to MaxPieces of these pieces in a row.
CodePieces ==
  {<<"x">>, <<" ">>, <<"\n">>, <<"a", "\n", "b">>, <<"tick">>, <<"tick", "tick", "tick">>, <<"tick", "tick", "tick", "t", "s", "\n">>, <<"\n", "tick", "tick", "tick">>}
RECURSIVE CleanInputs(_)
CleanInputs(n) ==
  IF n = 0 THEN {<<>>}
  ELSE CleanInputs(n - 1) \cup {r \o p : r \in CleanInputs(n - 1), p \in CodePieces}

CleanIdle ==
  /\ rawCode = <<>>
  /\ cleanedCode = <<>>
  /\ cleanPc = "off"

CleanInit ==
  /\ rawCode \in CleanInputs(MaxPieces)
  /\ cleanedCode = <<>>
  /\ cleanPc = "ready"

\* OutputParser.cleanCode(rawCode)
CleanCode ==
  /\ cleanPc = "ready"
  /\ cleanedCode' = cleanCode(rawCode)
  /\ cleanPc' = "done"
  /\ UNCHANGED rawCode
  /\ UNCHANGED outsideClean

\* cleanCode called again on its own result
CleanAgain ==
  /\ cleanPc = "done"
  /\ rawCode # cleanedCode
  /\ rawCode' = cleanedCode
  /\ cleanedCode' = <<>>
  /\ cleanPc' = "ready"
  /\ UNCHANGED outsideClean

CleanNext ==
  \/ CleanCode
  \/ CleanAgain

(***************************************************************************)
(* PerplexityAPI.makeRequest and handleError (src/api.ts).                 *)
(***************************************************************************)
\* What axios.post rejects with: the status of the response if there was
\* one, which of the words handleError looks for the message includes, the
\* error code of the response body and the code of the axios error.
AxiosErrors ==
  [axios : {TRUE},
   status : {{}, {400}, {401}, {403}, {429}, {500}},
   includes : SUBSET {"model", "context", "token"},
   errorCode : {"none", "invalid_model"},
   code : {"none", "ECONNABORTED", "ENOTFOUND", "ECONNREFUSED"}]

\* throw new Error("Invalid response format from Perplexity API")
InvalidFormatError ==
  [axios |-> FALSE, status |-> {}, includes |-> {}, errorCode |-> "none",
   code |-> "none"]

\* PerplexityAPI.FALLBACK_MODEL and PerplexityAPI.MAX_RETRIES
FALLBACK_MODEL == "sonar-pro"
MAX_RETRIES == 3
\* handleError: a 429 is retryable while retryCount < 2
RateLimitRetries == 2

PerplexityError(code, retryable) == [code |-> code, retryable |-> retryable]

\* handleError(error, retryCount): the tests in the order of the code
handleError(error, count) ==
  IF ~error.axios THEN PerplexityError("UNKNOWN_ERROR", FALSE)
  ELSE IF error.status = {429}
    THEN PerplexityError("RATE_LIMIT", count < RateLimitRetries)
  ELSE IF error.status \in {{401}, {403}}
    THEN PerplexityError("AUTH_ERROR", FALSE)
  ELSE IF error.status = {400}
          /\ ("model" \in error.includes \/ error.errorCode = "invalid_model")
    THEN PerplexityError("MODEL_ERROR", TRUE)
  ELSE IF error.status = {400}
          /\ ("context" \in error.includes \/ "token" \in error.includes)
    THEN PerplexityError("CONTEXT_LENGTH_ERROR", FALSE)
  ELSE IF \E status \in error.status : status >= 500
    THEN PerplexityError("SERVER_ERROR", TRUE)
  ELSE IF error.code = "ECONNABORTED"
    THEN PerplexityError("TIMEOUT_ERROR", TRUE)
  ELSE IF error.code \in {"ENOTFOUND", "ECONNREFUSED"}
    THEN PerplexityError("NETWORK_ERROR", TRUE)
  ELSE PerplexityError("API_ERROR", FALSE)

\* The response said the request was too large: status 400 with a message
\* that includes "context" or "token".
ContextLengthFailure(error) ==
  /\ error.axios
  /\ error.status = {400}
  /\ ("context" \in error.includes \/ "token" \in error.includes)

\* What the history keeps of a failed attempt.
Failed(error, classified) ==
  [status |-> error.status, contextLength |-> ContextLengthFailure(error),
   code |-> classified.code, retryable |-> classified.retryable]

RequestIdle ==
  /\ requestPc = "off"
  /\ retryCount = 0
  /\ requestModel = "none"
  /\ httpAttempts = 0
  /\ failures = <<>>
  /\ requestOutcome = {}

RequestInit ==
  /\ requestPc = "idle"
  /\ retryCount = 0
  /\ requestModel = "none"
  /\ httpAttempts = 0
  /\ failures = <<>>
  /\ requestOutcome = {}

\* makeRequest(requestBody, apiKey, timeout): the first invocation, with
\* retryCount = 0, up to the await of axios.post.
MakeRequest ==
  /\ requestPc = "idle"
  /\ requestPc' = "sending"
  /\ retryCount' = 0
  /\ requestModel' \in {"sonar", FALLBACK_MODEL}
  /\ httpAttempts' = 0
  /\ failures' = <<>>
  /\ requestOutcome' = {}
  /\ UNCHANGED outsideRequest

\* axios.post resolves with a well-formed body: the result is returned.
PostResolves ==
  /\ requestPc = "sending"
  /\ httpAttempts' = httpAttempts + 1
  /\ requestOutcome' = {"returned"}
  /\ requestPc' = "done"
  /\ UNCHANGED <<retryCount, requestModel, failures>>
  /\ UNCHANGED outsideRequest

\* The catch block: handleError classifies the error; a retryable one with
\* retries left switches the model after a MODEL_ERROR and awaits the delay,
\* any other is thrown.
Caught(error) ==
  LET Handled(perplexityError) ==
        /\ failures' = Append(failures, Failed(error, perplexityError))
        /\ IF perplexityError.retryable /\ retryCount < MAX_RETRIES
             THEN /\ requestModel' =
                       IF perplexityError.code = "MODEL_ERROR"
                            /\ requestModel # FALLBACK_MODEL
                         THEN FALLBACK_MODEL ELSE requestModel
                  /\ requestPc' = "waiting"
                  /\ UNCHANGED requestOutcome
             ELSE /\ requestOutcome' = {perplexityError.code}
                  /\ requestPc' = "done"
                  /\ UNCHANGED requestModel
  IN Handled(handleError(error, retryCount))

\* axios.post rejects.
PostRejects ==
  /\ requestPc = "sending"
  /\ httpAttempts' = httpAttempts + 1
  /\ \E error \in AxiosErrors : Caught(error)
  /\ UNCHANGED retryCount
  /\ UNCHANGED outsideRequest

\* axios.post resolves with a body without choices[0].message: the Error
\* thrown in the try block is caught by the same catch block.
PostResolvesInvalid ==
  /\ requestPc = "sending"
  /\ httpAttempts' = httpAttempts + 1
  /\ Caught(InvalidFormatError)
  /\ UNCHANGED retryCount
  /\ UNCHANGED outsideRequest

\* The delay has elapsed: makeRequest(requestBody, apiKey, timeout,
\* retryCount + 1) runs up to its await of axios.post.
RetryAfterDelay ==
  /\ requestPc = "waiting"
  /\ retryCount' = retryCount + 1
  /\ requestPc' = "sending"
  /\ UNCHANGED <<requestModel, httpAttempts, failures, requestOutcome>>
  /\ UNCHANGED outsideRequest

\* The caller has the response or the error.
RequestReturn ==
  /\ requestPc = "done"
  /\ requestPc' = "idle"
  /\ retryCount' = 0
  /\ requestModel' = "none"
  /\ httpAttempts' = 0
  /\ failures' = <<>>
  /\ requestOutcome' = {}
  /\ UNCHANGED outsideRequest

RequestNext ==
  \/ MakeRequest
  \/ PostResolves
  \/ PostRejects
  \/ PostResolvesInvalid
  \/ RetryAfterDelay
  \/ RequestReturn

(***************************************************************************)
(* The specifications.                                                     *)
(***************************************************************************)
vars == <<indexVars, resolveVars, promptVars, applyVars, patchVars, agentVars,
         parseVars,
         changesVars,
         historyVars,
         cleanVars,
         requestVars>>

IndexOnlyInit ==
  IndexInit /\ ResolveIdle /\ PromptIdle /\ ApplyIdle /\ PatchIdle /\ AgentIdle
  /\ ParseIdle
  /\ ChangesIdle
  /\ HistoryIdle
  /\ CleanIdle
  /\ RequestIdle
SpecIndex == IndexOnlyInit /\ [][IndexNext]_vars

ResolveOnlyInit ==
  IndexInit /\ ResolveInit /\ PromptIdle /\ ApplyIdle /\ PatchIdle /\ AgentIdle
  /\ ParseIdle
  /\ ChangesIdle
  /\ HistoryIdle
  /\ CleanIdle
  /\ RequestIdle
SpecResolve == ResolveOnlyInit /\ [][ResolveNext]_vars

PromptOnlyInit ==
  IndexInit /\ ResolveIdle /\ PromptInit /\ ApplyIdle /\ PatchIdle /\ AgentIdle
  /\ ParseIdle
  /\ ChangesIdle
  /\ HistoryIdle
  /\ CleanIdle
  /\ RequestIdle
SpecPrompt == PromptOnlyInit /\ [][PromptNext]_vars

ApplyOnlyInit ==
  IndexInit /\ ResolveIdle /\ PromptIdle /\ ApplyInit /\ PatchIdle /\ AgentIdle
  /\ ParseIdle
  /\ ChangesIdle
  /\ HistoryIdle
  /\ CleanIdle
  /\ RequestIdle
SpecApply == ApplyOnlyInit /\ [][ApplyNext]_vars

PatchOnlyInit ==
  IndexInit /\ ResolveIdle /\ PromptIdle /\ ApplyIdle /\ PatchInit /\ AgentIdle
  /\ ParseIdle
  /\ ChangesIdle
  /\ HistoryIdle
  /\ CleanIdle
  /\ RequestIdle
SpecPatch == PatchOnlyInit /\ [][PatchNext]_vars

AgentOnlyInit ==
  IndexInit /\ ResolveIdle /\ PromptIdle /\ ApplyIdle /\ PatchIdle /\ AgentInit
  /\ ParseIdle
  /\ ChangesIdle
  /\ HistoryIdle
  /\ CleanIdle
  /\ RequestIdle
SpecAgent == AgentOnlyInit /\ [][AgentNext]_vars

ParseOnlyInit ==
  IndexInit /\ ResolveIdle /\ PromptIdle /\ ApplyIdle /\ PatchIdle /\ AgentIdle
  /\ ParseInit
  /\ ChangesIdle
  /\ HistoryIdle
  /\ CleanIdle
  /\ RequestIdle

SpecParse == ParseOnlyInit /\ [][ParseNext]_vars

ChangesOnlyInit ==
  IndexInit /\ ResolveIdle /\ PromptIdle /\ ApplyIdle /\ PatchIdle /\ AgentIdle
  /\ ParseIdle
  /\ ChangesInit
  /\ HistoryIdle
  /\ CleanIdle
  /\ RequestIdle

SpecChanges == ChangesOnlyInit /\ [][ChangesNext]_vars

HistoryOnlyInit ==
  IndexInit /\ ResolveIdle /\ PromptIdle /\ ApplyIdle /\ PatchInit /\ AgentIdle
  /\ ParseIdle
  /\ ChangesIdle
  /\ HistoryInit
  /\ CleanIdle
  /\ RequestIdle

SpecHistory == HistoryOnlyInit /\ [][HistoryNext]_vars

CleanOnlyInit ==
  IndexInit /\ ResolveIdle /\ PromptIdle /\ ApplyIdle /\ PatchIdle /\ AgentIdle
  /\ ParseIdle
  /\ ChangesIdle
  /\ HistoryIdle
  /\ CleanInit
  /\ RequestIdle

SpecClean == CleanOnlyInit /\ [][CleanNext]_vars

RequestOnlyInit ==
  IndexInit /\ ResolveIdle /\ PromptIdle /\ ApplyIdle /\ PatchIdle /\ AgentIdle
  /\ ParseIdle
  /\ ChangesIdle
  /\ HistoryIdle
  /\ CleanIdle
  /\ RequestInit

SpecRequest == RequestOnlyInit /\ [][RequestNext]_vars

(***************************************************************************)
(* Claims about the ProjectIndexer, checked under SpecIndex.               *)
(***************************************************************************)

\* C2: while a build is in progress every read of the index sees either the
\* whole index as it was before the build started or the whole index the
\* finished build produces, never an empty or partly filled map.  Stated at
\* the end of the scan, when the produced index is known: the content read
\* during the build is one of the two.
C2_ReadsSeeWholeIndex ==
  \A p \in Callers :
    pc[p] = "finishing" => obsSeen \subseteq {before, heap[projectIndex]}

\* C3: a buildIndex call made while a build is running returns an index
\* equal to the snapshot that existed before the running build began, and
\* the running build does not change the returned value afterwards.
C3_ReentrantReturnsSnapshot ==
  \A o \in ret : heap[o] = retBefore

\* C4: under any interleaving of buildIndex, refreshIndex and resolveFiles
\* at most one scan is executing, and a scan is only ever started by the
\* step of a call that arrives while no scan is executing (a call arriving
\* during a scan neither starts one nor waits to start one later).
C4_AtMostOneScan ==
  /\ [](Cardinality({p \in Callers : Scanning(p)}) <= 1 /\ ~startedBusy)
  /\ [][\A p \in Callers :
          (pc'[p] = "glob" /\ pc[p] # "glob") =>
             (pc[p] = "idle" /\ ~isIndexing /\ isIndexing')]_vars

\* C4 witness: a re-entrant call has returned the current object while the
\* running build is inside its loop, and a resolveFiles caller that arrived
\* during the scan is about to read.
C4_Witness ==
  /\ isIndexing
  /\ ret = {projectIndex}
  /\ \E q \in Callers : pc[q] = "loop"
  /\ \E p \in Callers : pc[p] = "read"

\* The enumerated files have pairwise distinct base names.
DistinctBasenames(fs) ==
  \A i, j \in 1..Len(fs) : i # j => Basename(fs[i]) # Basename(fs[j])

\* C8: for enumerated files with pairwise distinct base names the build runs
\* to the end of its loop and the index then holds exactly one record for
\* each file whose read and parse succeeded and none for a file that failed,
\* whatever the position of the failing files.
C8_IndexHoldsReadableFiles ==
  \A p \in Callers :
    (pc[p] = "finishing" /\ DistinctBasenames(scanFiles)) =>
       heap[projectIndex] =
         [n \in Names |-> {f \in scanOk : Basename(f) = n}]

\* C8 witness: a finished scan of files with distinct base names in which an
\* unreadable file came before a readable one.
C8_Witness ==
  /\ \E p \in Callers : pc[p] = "finishing"
  /\ DistinctBasenames(scanFiles)
  /\ \E i, j \in 1..Len(scanFiles) :
       i < j /\ scanFiles[i] \notin scanOk /\ scanFiles[j] \in scanOk

\* C29: whenever a buildIndex scan ends, normally or by a thrown error, the
\* in-progress flag is cleared; isIndexing is true only while a scan is
\* executing; and a buildIndex call made after any build has finished always
\* starts a new scan (a failed build never locks out later builds).
C29_FlagClearedWhenScanEnds ==
  /\ [](isIndexing => \E p \in Callers : Scanning(p))
  /\ [][\A p \in Callers :
          /\ (Scanning(p) /\ ~Scanning(p)') => ~isIndexing'
          /\ (BuildIndexCall(p) /\ ~\E q \in Callers : Scanning(q)) =>
               (pc'[p] = "glob" /\ isIndexing')]_vars

\* C29 witness: after a scan that ended by a thrown error a later buildIndex
\* call has started a new scan, which is inside its loop.
C29_Witness ==
  /\ scanThrew
  /\ isIndexing
  /\ \E p \in Callers : pc[p] = "loop" /\ op[p] = "build"

(***************************************************************************)
(* Claims about the SmartFileResolver, checked under SpecResolve.          *)
(***************************************************************************)

\* The tokens of an instruction: its maximal runs of characters other than
\* white space and the punctuation , . ; : ! ? - _
Tokens(instr) ==
  LET ps == Pieces(instr, SplitDelims) IN {ps[i] : i \in 1..Len(ps)}

\* Token t is, up to case, the base name without extension of file record f.
NamesFile(t, f) == ToLower(t) = ToLower(BaseNoExt(f.path))

IndexedFiles == {resolveIndex[i] : i \in 1..Len(resolveIndex)}

\* resolveFiles returned exactly one match, of type exact and score 1.0,
\* whose file is named by one of the tokens ts.
ReturnedTheNamedFile(ts) ==
  /\ Len(fileMatches) = 1
  /\ fileMatches[1].matchType = "exact"
  /\ FracEq(fileMatches[1].score, Frac(1, 1))
  /\ \E t \in ts : NamesFile(t, fileMatches[1].file)

WithinOptions ==
  /\ \A i \in 1..Len(fileMatches) :
       ~FracLess(fileMatches[i].score, resolveOptions.minScore)
  /\ Len(fileMatches) <= resolveOptions.maxResults
\* The exact pass found a file whose base name equals or contains an
\* identifier of the instruction.
HasExactMatch ==
  ExactPass(extractIdentifiers(instruction), resolveIndex, 1) # <<>>

\* C14 as stated: for every instruction, index and options, every match
\* that resolveFiles returns has score >= options.minScore and the returned
\* list has at most options.maxResults entries.
C14_AlwaysWithinOptions ==
  resolvePc = "done" => WithinOptions

\* C14, amended: the same when no exact file-name match exists; when one
\* exists resolveFiles returns exactly one match, of type exact, whatever
\* minScore and maxResults are.
C14_WithinOptionsUnlessExact ==
  resolvePc = "done" =>
    IF HasExactMatch
      THEN Len(fileMatches) = 1 /\ fileMatches[1].matchType = "exact"
      ELSE WithinOptions

\* C14 witness: resolveFiles has returned matches for an instruction without
\* an exact match, and with minScore 0 it would have returned more of them.
C14_Witness ==
  /\ resolvePc = "done"
  /\ ~HasExactMatch
  /\ fileMatches # <<>>
  /\ resolveOptions.maxResults = DefaultMaxResults
  /\ Len(resolveFiles(instruction, resolveIndex,
                      [resolveOptions EXCEPT !.minScore = Frac(0, 1)]))
       > Len(fileMatches)

\* What the class, function, export and (when enabled) fuzzy passes produce
\* for the instruction, before deduplication.
PassMatches ==
  LET identifiers == extractIdentifiers(instruction)
  IN ClassPass(identifiers, resolveIndex, 1)
       \o FunctionPass(identifiers, resolveIndex, 1)
       \o ExportPass(identifiers, resolveIndex, 1)
       \o (IF resolveOptions.enableFuzzyMatching
             THEN FuzzyPass(identifiers, resolveIndex, 1) ELSE <<>>)

\* C15: the list resolveFiles returns is in non-increasing score order and
\* holds at most one match per file path; when no exact file-name match
\* exists, the match kept for a path carries the highest score that any
\* class, function, export or fuzzy pass produced for that path.
C15_SortedUniqueHighest ==
  resolvePc = "done" =>
    /\ \A i \in 1..(Len(fileMatches) - 1) :
         ~FracLess(fileMatches[i].score, fileMatches[i + 1].score)
    /\ \A i, j \in 1..Len(fileMatches) :
         fileMatches[i].file.path = fileMatches[j].file.path => i = j
    /\ ~HasExactMatch =>
         \A i \in 1..Len(fileMatches), k \in 1..Len(PassMatches) :
           PassMatches[k].file.path = fileMatches[i].file.path =>
             ~FracLess(fileMatches[i].score, PassMatches[k].score)

\* C15 witness: without an exact match resolveFiles has returned two matches
\* of different scores, and for the path of one of them the first match the
\* passes produced scores lower than a later one.
C15_Witness ==
  /\ resolvePc = "done"
  /\ ~HasExactMatch
  /\ Len(fileMatches) >= 2
  /\ FracLess(fileMatches[2].score, fileMatches[1].score)
  /\ \E i \in 1..Len(fileMatches), k, l \in 1..Len(PassMatches) :
       /\ k < l
       /\ PassMatches[k].file.path = fileMatches[i].file.path
       /\ PassMatches[l].file.path = fileMatches[i].file.path
       /\ \A j \in 1..(k - 1) :
            PassMatches[j].file.path # fileMatches[i].file.path
       /\ FracLess(PassMatches[k].score, PassMatches[l].score)


(***************************************************************************)
(* Claims about the prompt's line numbers, checked under SpecPrompt.       *)
(***************************************************************************)

\* C1: for a target file that composePromptContext includes, every numbered
\* code line "N: text" of the user prompt is line N of the file's content on
\* disk: the number shown is the line's 1-based position in the file,
\* whatever the length of the file.
C1_NumbersAreFilePositions ==
  promptPc = "done" =>
    \A k \in 1..Len(numbered) :
      numbered[k].line = FileLine(numbered[k].number - 1)

(***************************************************************************)
(* Claims about applyFileChanges, checked under SpecApply.                 *)
(***************************************************************************)

\* The call was a replace edit of lines startLine..endLine of a document
\* that has them, and the edit was applied.
ReplacedLines ==
  /\ applyPc = "done"
  /\ applied = {TRUE}
  /\ edit.changeType = "replace"
  /\ edit.startLine # {} /\ edit.endLine # {}
  /\ \E s \in edit.startLine, e \in edit.endLine :
       1 <= s /\ s <= e /\ e <= Len(SplitLines(documentBefore))

\* C6: a replace edit with 1 <= startLine <= endLine <= line count replaces
\* exactly the text of lines startLine..endLine with the new content: the
\* document becomes the lines before startLine, the new content and the
\* lines after endLine, in that order, joined by the line breaks that were
\* there.
C6_ReplaceKeepsOtherLines ==
  ReplacedLines =>
    LET lines == SplitLines(documentBefore)
        s == CHOOSE n \in edit.startLine : TRUE
        e == CHOOSE n \in edit.endLine : TRUE
    IN document = JoinLines(SubSeq(lines, 1, s - 1) \o <<edit.newContent>>
                              \o SubSeq(lines, e + 1, Len(lines)))

\* C6 witness: an applied replace edit of lines in the middle of a document,
\* with a line before and a line after them.
C6_Witness ==
  /\ ReplacedLines
  /\ \E s \in edit.startLine, e \in edit.endLine :
       1 < s /\ e < Len(SplitLines(documentBefore))
  /\ document # documentBefore

(***************************************************************************)
(* Claims about the patch engine, checked under SpecPatch.                 *)
(***************************************************************************)

\* The operation that has just returned, and its result.
PatchDone == patchPc = "done" /\ patchResult # {}
PatchSucceeded == PatchDone /\ \A r \in patchResult : r.success
ApplyKinds == {"inline", "generation", "multifile", "confirmation"}

\* C7: every edit that an apply method of the patch engine
\* (applyInlinePatch, applyGenerationPatch, applyMultiFilePatch,
\* applyPatchWithConfirmation) has successfully applied to a file adds an
\* entry for that file to the patch history: immediately after the
\* successful apply getPatchHistory(file) is not empty.  Stated for the
\* calls that do not switch change tracking off.
C7_SuccessfulApplyAddsHistory ==
  ( /\ PatchSucceeded
    /\ patchOp.kind \in ApplyKinds
    /\ (patchOp.kind = "confirmation" \/ patchOp.options.trackChanges) )
  => \A f \in touched : getPatchHistory(f) # <<>>

\* C11: when the user declines the confirmation prompt of applyInlinePatch,
\* applyGenerationPatch, applyMultiFilePatch or applyPatchWithConfirmation,
\* the operation returns a result with success = false, no document has been
\* edited and the patch history is what it was before the call.
C11_DeclineChangesNothing ==
  (declined /\ patchOp.kind \in ApplyKinds) =>
    /\ patchPc = "done"
    /\ patchResult # {}
    /\ \A r \in patchResult : ~r.success
    /\ touched = {}
    /\ patchHistory = historyBefore

\* C11 witness: with an earlier patch in the history, the user has declined
\* the confirmation of a multi-file patch whose changes all pass validation.
C11_Witness ==
  /\ declined
  /\ patchPc = "done"
  /\ patchOp.kind = "multifile"
  /\ patchOp.changes # <<>>
  /\ \A i \in 1..Len(patchOp.changes) :
       validateSyntax(patchOp.changes[i].content)
  /\ patchHistory # <<>>

\* applyMultiFilePatch has returned the result it builds after the commit.
MultiFileCommitReturned ==
  /\ PatchDone
  /\ patchOp.kind = "multifile"
  /\ \A r \in patchResult : r.total > 0

MultiFileValidated ==
  /\ patchOp.kind = "multifile"
  /\ patchOp.options.validateSyntax

\* C10: in applyMultiFilePatch with validateSyntax enabled no file is
\* touched before the bracket check of every proposed change has completed
\* (and then only when all of them passed); when a change fails the check
\* the operation returns success = false, no file has been touched and the
\* patch history is what it was before the call.
C10_ValidateBeforeMutation ==
  MultiFileValidated =>
    /\ (touched # {} \/ patchPc = "commit") =>
         /\ checked = Len(patchOp.changes)
         /\ \A i \in 1..Len(patchOp.changes) :
              validateSyntax(patchOp.changes[i].content)
    /\ ( /\ PatchDone
         /\ \E i \in 1..Len(patchOp.changes) :
              ~validateSyntax(patchOp.changes[i].content) ) =>
         /\ \A r \in patchResult : ~r.success
         /\ touched = {}
         /\ patchHistory = historyBefore

\* C10 witness: applyMultiFilePatch with validateSyntax has returned for two
\* changes of which the first passes the bracket check and the second fails
\* it, with an earlier patch in the history.
C10_Witness ==
  /\ MultiFileValidated
  /\ PatchDone
  /\ Len(patchOp.changes) = 2
  /\ validateSyntax(patchOp.changes[1].content)
  /\ ~validateSyntax(patchOp.changes[2].content)
  /\ checked = 2
  /\ patchHistory # <<>>
  /\ \A r \in patchResult : ~r.success

(***************************************************************************)
(* Claims about executeSmartInstruction, checked under SpecAgent.          *)
(***************************************************************************)

\* resolveFiles has returned, and it returned no match.
ResolvedNothing == \E found \in agentMatches : Len(found) = 0
\* executeSmartInstruction has returned its result.
AgentDone == agentPc = "done"

\* C9: executeSmartInstruction edits no file unless resolveFiles returned at
\* least one match and callAPI returned a response; when resolveFiles returns
\* no match callAPI is not called; and when resolveFiles returned no match or
\* callAPI failed (an error or a timeout), the call returns a result with
\* success = false, changesApplied = 0 and at least one error message, no
\* file has been edited and no error is left uncaught.
C9_NoEditWithoutMatchAndResponse ==
  /\ edited # {} =>
       /\ \E found \in agentMatches : Len(found) > 0
       /\ aiResponse # {}
  /\ ResolvedNothing => modelCalls = 0
  /\ (AgentDone /\ (ResolvedNothing \/ callFailed)) =>
       /\ ~agentResult.success
       /\ agentResult.changesApplied = 0
       /\ Len(agentResult.errors) >= 1
       /\ edited = {}
       /\ thrown = {}

\* C9 witness: a call whose resolution found a match has called the model,
\* the model call timed out, and the call has returned.
C9_Witness ==
  /\ AgentDone
  /\ callFailed
  /\ modelCalls = 1
  /\ \E found \in agentMatches : Len(found) > 0
  /\ agentResult.errors =
       <<"Request timeout. Try again or increase timeout in codeIt settings.">>

\* A call has returned for an instruction that resolved to no file.
C9_WitnessNoMatch ==
  /\ AgentDone
  /\ ResolvedNothing
  /\ workspaceIndex # <<>>
  /\ agentInstruction # <<>>

\* parseAndApplyChanges has returned for a response with changes.
ChangesProcessed ==
  /\ AgentDone
  /\ \E response \in aiResponse : response.changes # <<>>
AppliedAttempts == {i \in 1..Len(attempts) : attempts[i].outcome = "applied"}
FailedAttempts == {i \in 1..Len(attempts) : attempts[i].outcome # "applied"}

\* C13: when the SmartAgent applies a response with several file changes
\* and some of them fail (target file not found, edit rejected or an error
\* thrown), every change is still attempted, in order; the changes already
\* applied stay applied; the returned appliedCount is the number of changes
\* whose edit succeeded; and exactly one error message is recorded for each
\* failed change.
C13_EveryChangeAttemptedAndCounted ==
  /\ agentPc = "apply" => Len(attempts) = changeIdx - 1
  /\ ChangesProcessed =>
       /\ \A response \in aiResponse : Len(attempts) = Len(response.changes)
       /\ agentResult.changesApplied = Cardinality(AppliedAttempts)
       /\ Len(agentResult.errors) = Cardinality(FailedAttempts)
       /\ \A i \in AppliedAttempts : attempts[i].file \subseteq edited

\* C13 witness: of two changes the first threw an error, the second was
\* applied after it, and the call has returned.
C13_Witness ==
  /\ ChangesProcessed
  /\ Len(attempts) = 2
  /\ attempts[1].outcome = "threw"
  /\ attempts[2].outcome = "applied"
  /\ agentResult.changesApplied = 1

\* The changes the user has confirmed during a call: parseAndApplyChanges
\* hands the preview to the chat handler and goes on to applyFileChanges; it
\* awaits no answer, so no change is ever confirmed.
ConfirmedFiles == {}

\* C27: with applyChangesAutomatically = false (the default),
\* executeSmartInstruction does not edit or save any file unless the user
\* has confirmed the change first.
C27_NoEditWithoutConfirmation ==
  ~agentOptions.applyChangesAutomatically => edited \subseteq ConfirmedFiles

\* C28: if executeSmartInstruction returns success = true, then either at
\* least one change was applied or the response proposed no file change at
\* all; it never reports success when the response proposed changes and
\* every one of them failed to apply.
C28_SuccessMeansAppliedOrNothingProposed ==
  (AgentDone /\ agentResult.success) =>
    \/ agentResult.changesApplied > 0
    \/ \A response \in aiResponse : response.changes = <<>>

(***************************************************************************)
(* Claims about the OutputParser, checked under SpecParse.                 *)
(***************************************************************************)
ParseDone == parsePc = "done"

\* a reply with no code fence and none of the marks isCodeLike looks for
PlainProse(r) == CountOf(r, Fence) = 0 /\ ~isCodeLike(Trim(r))

\* C16: for a reply that is plain prose, with no code fence and no code-like
\* syntax, parseAIResponse returns metadata.responseType = explanation_only,
\* hasCodeBlocks = false and a confidence of at most 0.6, in every parse
\* context.
C16_ProseIsExplanationOnly ==
  (ParseDone /\ PlainProse(reply)) =>
    \A r \in parsed :
      /\ r.threw = {}
      /\ \A o \in r.out :
           /\ o.metadata.responseType = "explanation_only"
           /\ ~o.hasCodeBlocks
           /\ ~FracLess(Frac(6, 10), o.confidence)

\* the fenced blocks of a reply: one for every pair of fences
FencedBlocks(r) == CountOf(r, Fence) \div 2

\* C17: detectResponseType classifies every response with three or more
\* fenced code blocks as multifile, with or without File:/Path: headers, and
\* every response with no fenced block and no code-like syntax as
\* explanation_only.
C17_ClassifiedByFences ==
  ParseDone =>
    /\ FencedBlocks(Trim(reply)) >= 3 => detected = {"multifile"}
    /\ PlainProse(reply) => detected = {"explanation_only"}

\* C23: parseAIResponse returns a ParsedOutput for every response text and
\* every context: a response treated as multi-file, by its detected type or
\* by expectMultiFile, from which no file change can be extracted is parsed
\* as a single file, and the call ends without an error.
C23_AlwaysReturnsParsedOutput ==
  ParseDone => \A r \in parsed : r.threw = {} /\ r.out # {}

\* C25: detectResponseType returns multifile only for a response with a
\* File:/Path: header or with more than two fenced code blocks; a response
\* with exactly one or exactly two fenced blocks and no header is classified
\* code_only or code_with_explanation.
C25_MultifileNeedsHeaderOrThreeBlocks ==
  ParseDone =>
    /\ detected = {"multifile"} =>
         hasFileHeaders(Trim(reply)) \/ CountOf(Trim(reply), Fence) > 4
    /\ (CountOf(Trim(reply), Fence) \in {2, 4} /\ ~hasFileHeaders(Trim(reply))) =>
         detected \in {{"code_only"}, {"code_with_explanation"}}

(***************************************************************************)
(* Claims about SmartAgent.parseFileChanges, checked under SpecChanges.    *)
(***************************************************************************)
ChangesDone == changesPc = "done"

\* no line of the block holds /** or */
NoDocDelimiters(form) ==
  \A k \in 1..Len(form.lines) :
    ~Includes(form.lines[k], DocOpen) /\ ~Includes(form.lines[k], DocClose)

\* C18: for a reply "### File: <name> (lines X-Y)" followed by a fenced block
\* of Y - X + 1 lines that holds no doc-comment delimiter, parseFileChanges
\* yields exactly one change, with that fileName, startLine = X, endLine = Y,
\* changeType = replace and newContent equal to the lines of the block.
C18_HeaderBlockIsOneReplace ==
  ChangesDone =>
    \A form \in replyForm :
      (replyText = ReplyText(form) /\ NoDocDelimiters(form)) =>
        parsedChanges =
          <<FileChange(form.name, JoinLines(form.lines), {form.first},
                       {LastLine(form)}, "replace")>>

\* a document of ten lines
TenLines == <<<<"p">>, <<"q">>, <<"r">>, <<"s">>, <<"t">>, <<"u">>, <<"v">>, <<"w">>, <<"x">>, <<"y">>>>

\* C26: a reply header of the form '### File: <name> (line X)' yields a
\* replace edit that covers line X only (startLine = endLine = X), whatever
\* the number of lines in the fenced block that follows, and applying it
\* leaves every other line of the document unchanged.
C26_SingleLineHeaderCoversOneLine ==
  ChangesDone =>
    \A form \in replyForm :
      (replyText = SingleLineText(form) /\ NoDocDelimiters(form)
         /\ Trim(JoinLines(form.lines)) # <<>>) =>
        /\ Len(parsedChanges) = 1
        /\ parsedChanges[1].changeType = "replace"
        /\ parsedChanges[1].startLine = {form.first}
        /\ parsedChanges[1].endLine = {form.first}
        /\ SplitLines(ReplaceRange(JoinLines(TenLines),
                                   EditRange(JoinLines(TenLines),
                                             parsedChanges[1].startLine,
                                             parsedChanges[1].endLine),
                                   parsedChanges[1].newContent))
             = SubSeq(TenLines, 1, form.first - 1)
                 \o SplitLines(parsedChanges[1].newContent)
                 \o SubSeq(TenLines, form.first + 1, Len(TenLines))

(***************************************************************************)
(* Claims about the function_update changes, checked under SpecApply.      *)
(***************************************************************************)
FunctionUpdated == applyPc = "done" /\ edit.changeType = "function_update"

\* C19: when findFunctionInCode finds no declaration of the function in the
\* document (no function name can be taken from the documentation, none of
\* the three declaration shapes matches, or no brace closes the function),
\* applyFileChanges returns without throwing and the function_update change
\* is applied as a replacement of the whole document: once editor.edit has
\* accepted it, the document is the new content.
C19_FallbackReplacesWholeDocument ==
  (FunctionUpdated /\ findFunctionInCode(edit.newContent, documentBefore) = {})
  => /\ applied \in {{TRUE}, {FALSE}}
     /\ applied = {TRUE} => document = edit.newContent

\* C19 witness: the documentation names a function, the document is not
\* empty and holds none of the three declaration shapes for it, and the edit
\* has replaced the whole document.
C19_Witness ==
  /\ FunctionUpdated
  /\ documentBefore # <<>>
  /\ \E n \in FunctionNameIn(edit.newContent) :
       DeclarationIndex(n, documentBefore) = {}
  /\ applied = {TRUE}
  /\ document = edit.newContent
  /\ document # documentBefore

\* the function findFunctionInCode locates in text: the offset where its
\* declaration line starts and the offset after its closing brace
LocatedFunction(newContent, text) ==
  UNION {{[lineStart |-> (CHOOSE i \in LineStarts(text) :
                            /\ i <= startIndex + 1
                            /\ \A j \in LineStarts(text) :
                                 j <= startIndex + 1 => j <= i) - 1,
           end |-> BraceEnd(text, startIndex, startIndex, 0, FALSE)] :
            startIndex \in DeclarationIndex(functionName, text)} :
         functionName \in FunctionNameIn(newContent)}

\* C24: when findFunctionInCode locates the function, the applied
\* function_update edit changes nothing but the doc-comment: the text before
\* the insertion point, the function from the start of its declaration line
\* through its closing brace, and the text after the function, line break
\* included, are as before, and between them stands the new doc-comment, an
\* existing one being replaced and not duplicated.
C24_OnlyDocCommentChanges ==
  (FunctionUpdated /\ applied = {TRUE}) =>
    \A m \in findFunctionInCode(edit.newContent, documentBefore),
       f \in LocatedFunction(edit.newContent, documentBefore) :
      LET above == SubSeq(documentBefore, 1, m.range.start)
          body == SubSeq(documentBefore, f.lineStart + 1, f.end)
          below == SubSeq(documentBefore, f.end + 1, Len(documentBefore))
          comment == Trim(edit.newContent)
      IN \E k \in 0..Len(document) :
           /\ document = above \o SubSeq(document, Len(above) + 1, Len(above) + k)
                           \o body \o below
           /\ Includes(SubSeq(document, Len(above) + 1, Len(above) + k), comment)
           /\ CountOf(SubSeq(document, Len(above) + 1, Len(above) + k), DocOpen)
                = CountOf(comment, DocOpen)

(***************************************************************************)
(* Claims about the patch history, checked under SpecHistory.              *)
(***************************************************************************)
\* C20: after any sequence of additions, clearHistory and undoLastPatch the
\* patch history holds at most 50 entries, newest first, which are exactly
\* the most recent (up to 50) entries added since the last clearHistory; and
\* undoLastPatch removes or changes no entry.
C20_HistoryIsRecentAdditions ==
  /\ Len(patchHistory) <= maxHistorySize
  /\ \A i, j \in 1..Len(patchHistory) :
       i < j => patchHistory[i].id > patchHistory[j].id
  /\ patchHistory = SubSeq(added, 1, Min2(Len(added), maxHistorySize))
  /\ (patchPc = "done" /\ patchOp.kind = "undo") => patchHistory = historyBefore

\* C20 witness: after a clearHistory more than 50 entries were added, the
\* history is full, and undoLastPatch has just run for a file with a
\* successful entry.
C20_Witness ==
  /\ Len(added) > maxHistorySize
  /\ added[Len(added)].id > 1
  /\ Len(patchHistory) = maxHistorySize
  /\ patchPc = "done" /\ patchOp.kind = "undo"
  /\ \A r \in patchResult : r.success

(***************************************************************************)
(* The resolver on files whose class names contain an identifier of the    *)
(* instruction (findClassMatches, src/smartFileResolver.ts).               *)
(***************************************************************************)
\* Files whose names match no word of ScoreVocabulary exactly or in part.
ClassFiles == <<
  [path |-> <<"/", "w", "/", "a", ".", "t", "s">>, relativePath |-> <<"a", ".", "t", "s">>,
   classes |-> <<<<"U", "s", "e", "r", "S", "e", "r", "v", "i", "c", "e">>>>, functions |-> <<>>, exports |-> <<>>,
   summary |-> <<"t", "s", " ", "f", "i", "l", "e">>],
  [path |-> <<"/", "w", "/", "b", ".", "t", "s">>, relativePath |-> <<"b", ".", "t", "s">>,
   classes |-> <<<<"U", "s", "e", "r", "R", "e", "p", "o">>>>, functions |-> <<>>, exports |-> <<>>,
   summary |-> <<"t", "s", " ", "f", "i", "l", "e">>],
  [path |-> <<"/", "w", "/", "c", ".", "t", "s">>, relativePath |-> <<"c", ".", "t", "s">>,
   classes |-> <<<<"U", "s", "e", "r", "s">>>>, functions |-> <<<<"g", "e", "t", "U", "s", "e", "r">>>>, exports |-> <<>>,
   summary |-> <<"t", "s", " ", "f", "i", "l", "e">>],
  [path |-> <<"/", "w", "/", "d", ".", "t", "s">>, relativePath |-> <<"d", ".", "t", "s">>,
   classes |-> <<<<"S", "u", "p", "e", "r", "U", "s", "e", "r", "S", "e", "r", "v", "i", "c", "e">>>>, functions |-> <<>>, exports |-> <<>>,
   summary |-> <<"t", "s", " ", "f", "i", "l", "e">>],
  [path |-> <<"/", "w", "/", "e", ".", "t", "s">>, relativePath |-> <<"e", ".", "t", "s">>,
   classes |-> <<<<"U", "s", "e", "r", "D", "a", "t", "a">>>>, functions |-> <<>>, exports |-> <<>>,
   summary |-> <<"a", " ", "u", "s", "e", "r">>]
>>

\* The instructions: one identifier, or two.
ScoreInstructions ==
  {<<"u", "s", "e", "r">>,
   <<"S", "e", "r", "v", "i", "c", "e">>,
   <<"r", "e", "p", "o">>,
   <<"u", "p", "d", "a", "t", "e", " ", "u", "s", "e", "r">>,
   <<"u", "s", "e", "r", " ", "r", "e", "p", "o">>,
   <<"u", "s", "e", "r", " ", "S", "e", "r", "v", "i", "c", "e">>}

ScoreInit ==
  /\ instruction \in ScoreInstructions
  /\ resolveIndex \in {Restrict(ClassFiles, keep, 1) :
                         keep \in SUBSET (1..Len(ClassFiles))}
  /\ resolveOptions = [maxResults |-> DefaultMaxResults, minScore |-> Frac(1, 10),
                       enableFuzzyMatching |-> TRUE]
  /\ fileMatches = <<>>
  /\ resolvePc = "ready"

ScoreOnlyInit ==
  IndexInit /\ ScoreInit /\ PromptIdle /\ ApplyIdle /\ PatchIdle /\ AgentIdle
  /\ ParseIdle
  /\ ChangesIdle
  /\ HistoryIdle
  /\ CleanIdle
  /\ RequestIdle

SpecScore == ScoreOnlyInit /\ [][ResolveNext]_vars

\* every match the passes of resolveFiles push for the instruction, before
\* the duplicates are removed
PushedMatches ==
  LET identifiers == extractIdentifiers(instruction)
  IN ExactPass(identifiers, resolveIndex, 1)
       \o ClassPass(identifiers, resolveIndex, 1)
       \o FunctionPass(identifiers, resolveIndex, 1)
       \o ExportPass(identifiers, resolveIndex, 1)
       \o (IF resolveOptions.enableFuzzyMatching
             THEN FuzzyPass(identifiers, resolveIndex, 1) ELSE <<>>)

\* id is a proper substring of a class name of the file, and the match for
\* it is the only match the file has
OnlyClassMatch(id, file, className) ==
  /\ \E j \in 1..Len(file.classes) : file.classes[j] = className
  /\ Includes(ToLower(className), ToLower(id))
  /\ ToLower(className) # ToLower(id)
  /\ Cardinality({i \in 1..Len(PushedMatches) :
                    PushedMatches[i].file.path = file.path}) = 1

\* the pairs of files the claim is about: the identifier is a larger or
\* equal fraction of CA than of CB
ScoredPairs ==
  LET identifiers == extractIdentifiers(instruction)
      files == {resolveIndex[i] : i \in 1..Len(resolveIndex)}
      Matched(id) ==
        UNION {{[file |-> f, className |-> f.classes[j]] :
                  j \in {k \in 1..Len(f.classes) :
                           OnlyClassMatch(id, f, f.classes[k])}} : f \in files}
      Pairs(id, found) ==
        {[id |-> id, A |-> x.file, CA |-> x.className,
          B |-> y.file, CB |-> y.className] : x \in found, y \in found}
  IN {t \in UNION {Pairs(identifiers[i], Matched(identifiers[i])) :
                     i \in 1..Len(identifiers)} :
        /\ t.A # t.B
        /\ Len(t.id) * Len(t.CB) >= Len(t.id) * Len(t.CA)}

\* the scores resolveFiles returned for a file
ScoresOf(file) ==
  {fileMatches[i].score : i \in {k \in 1..Len(fileMatches) :
                                   fileMatches[k].file.path = file.path}}

\* C21: when an identifier is a proper substring of class name CA of file A
\* and of class name CB of file B, is at least as large a fraction of CA as
\* of CB, and neither file has another match, the score resolveFiles gives A
\* is at least the score it gives B; and B is returned without A only when
\* the two scores are equal and maxResults cut A off.
C21_LargerFractionScoresHigher ==
  resolvePc = "done" =>
    \A t \in ScoredPairs :
      /\ \A a \in ScoresOf(t.A), b \in ScoresOf(t.B) : ~FracLess(a, b)
      /\ (ScoresOf(t.B) # {} /\ ScoresOf(t.A) = {}) =>
           /\ Len(fileMatches) = resolveOptions.maxResults
           /\ Len(t.CA) = Len(t.CB)

\* C21 witness: resolveFiles has returned both files, the identifier being a
\* strictly larger fraction of A's class name, and A scored strictly higher.
C21_Witness ==
  /\ resolvePc = "done"
  /\ \E t \in ScoredPairs :
       /\ Len(t.CA) < Len(t.CB)
       /\ \E a \in ScoresOf(t.A), b \in ScoresOf(t.B) : FracLess(b, a)

(***************************************************************************)
(* Claims about OutputParser.cleanCode, checked under SpecClean.           *)
(***************************************************************************)
NoFence(code) == \A i \in 1..Len(code) : ~StartsAt(code, i, Fence)

\* C22 as stated: for every text without fence markers cleanCode returns
\* the text unchanged.
C22_FenceFreeUnchanged ==
  (cleanPc = "done" /\ NoFence(rawCode)) => cleanedCode = rawCode

\* C22: for every text without fence markers cleanCode returns the text
\* without its leading and trailing white space and with every other
\* character unchanged, so a text that neither starts nor ends with white
\* space comes back equal to the input.
C22_FenceFreeOnlyTrimmed ==
  (cleanPc = "done" /\ NoFence(rawCode)) =>
    /\ \E i \in 1..(Len(rawCode) + 1), j \in 0..Len(rawCode) :
         /\ cleanedCode = SubSeq(rawCode, i, j)
         /\ \A k \in 1..(i - 1) : rawCode[k] \in Whitespace
         /\ \A k \in (j + 1)..Len(rawCode) : rawCode[k] \in Whitespace
    /\ cleanedCode # <<>> =>
         /\ cleanedCode[1] \notin Whitespace
         /\ cleanedCode[Len(cleanedCode)] \notin Whitespace
    /\ (rawCode # <<>> /\ rawCode[1] \notin Whitespace
          /\ rawCode[Len(rawCode)] \notin Whitespace) => cleanedCode = rawCode

\* C22 witness: cleanCode has returned for a text without fence markers that
\* starts with white space and has a line break inside.
C22_Witness ==
  /\ cleanPc = "done"
  /\ NoFence(rawCode)
  /\ Len(rawCode) >= 3
  /\ rawCode[1] \in Whitespace
  /\ \E k \in 2..(Len(cleanedCode) - 1) : cleanedCode[k] = "\n"

(***************************************************************************)
(* Claims about PerplexityAPI.makeRequest, checked under SpecRequest.      *)
(***************************************************************************)
\* The i-th attempt failed and another attempt follows it or is awaited.
Retried(i) == i < httpAttempts \/ (i = httpAttempts /\ requestPc = "waiting")

\* One call issues at most the first attempt plus MAX_RETRIES, and after the
\* last of them it is over.
AttemptsBounded ==
  /\ httpAttempts <= MAX_RETRIES + 1
  /\ httpAttempts = MAX_RETRIES + 1 => requestPc = "done"

\* A further attempt follows only a failure classified retryable.
OnlyRetryableRetried ==
  \A i \in 1..Len(failures) : Retried(i) => failures[i].retryable

\* An authentication failure ends the call after that attempt.
AuthenticationEnds ==
  \A i \in 1..Len(failures) :
    failures[i].status \in {{401}, {403}} => ~Retried(i)

\* A context-length failure ends the call after that attempt.
ContextLengthEnds ==
  \A i \in 1..Len(failures) : failures[i].contextLength => ~Retried(i)

\* A rate-limit failure is retried at most twice.
RateLimitRetriedTwice ==
  Cardinality({i \in 1..Len(failures) :
                 failures[i].status = {429} /\ Retried(i)}) <= RateLimitRetries

\* C30: for every sequence of request failures, one makeRequest call issues
\* at most 4 HTTP attempts (the first plus MAX_RETRIES = 3) and then ends by
\* returning a response or throwing; it issues a further attempt only after
\* a failure classified retryable, so an authentication (401/403) or
\* context-length failure ends the call after that attempt and a rate-limit
\* (429) failure is retried at most twice.
C30_AtMostFourAttempts ==
  /\ AttemptsBounded
  /\ requestPc = "done" => requestOutcome # {}
  /\ OnlyRetryableRetried
  /\ AuthenticationEnds
  /\ ContextLengthEnds
  /\ RateLimitRetriedTwice

=============================================================================
